---- MODULE Spec2Model ----
(***************************************************************************)
(* A model of the qmd document store (internal/store/store.go): the        *)
(* content-addressed content table, the documents table with its three     *)
(* triggers that keep the FTS5 table documents_fts in step, the            *)
(* content_vectors marker table and the vec0 table vectors_vec.            *)
(*                                                                         *)
(* Strings are sequences of pieces.  A piece is an atom of text that holds *)
(* no separator: a word, or one of the separators "/", ".", "#", "##".     *)
(* A collection name and a path are sequences of pieces that are joined    *)
(* without anything in between ("a" "/" "b" is the string a/b).  A text is *)
(* a sequence of lines and a line a sequence of pieces that are separated  *)
(* by one space; lines are separated by one newline.                       *)
(***************************************************************************)
EXTENDS Integers, Sequences, FiniteSets, TLC

----------------------------------------------------------------------------
(* Bounds of the model *)

\* number of calls of the store's operations in one behaviour of SpecDocs
MaxOps == 3
\* number of calls of the store's operations in one behaviour of SpecVec
MaxVecOps == 4
\* the clock (time.Now() at one second resolution) runs over 0..MaxTime
MaxTime == 1

----------------------------------------------------------------------------
(* The inputs the callers draw from *)

ColA == <<"a">>
ColAB == <<"a", "/", "b">>
PathX == <<"x", ".", "md">>
PathBX == <<"b", "/", "x", ".", "md">>
PathTxt == <<"x", ".", "txt">>

\* the paths, relative to the root of collection "a", at which files come
\* and go
FsPaths == { PathBX, PathX, PathTxt }

\* (collection, path) pairs handed to IndexDocument and GetDocument; the
\* first two have the same collection || '/' || path
Identities == { <<ColA, PathBX>>, <<ColAB, PathX>>, <<ColA, PathX>> }

TextInitial == << <<"#", "alpha">>, <<"initial", "version">> >>
TextUpdated == << <<"updated", "versions">> >>
TextBeta == << <<"##", "beta">>, <<"initial">> >>

Texts == { TextInitial, TextUpdated, TextBeta }

\* widths of the vector table and of the vectors
Dims == {1, 2}
Vectors == { <<1>>, <<1, 0>>, <<0, 1>> }
Seqs == {0, 1}

\* SQL NULL, and the empty value of a call that returns an error
Null == << >>
\* Go's nil error
Nil == "nil"

----------------------------------------------------------------------------
(* util.HashContent, util.ExtractTitle *)

Pieces == <<"\n", "#", "##", "alpha", "beta", "initial", "updated", "version", "versions">>

PieceCode(p) == CHOOSE i \in 1..Len(Pieces) : Pieces[i] = p

RECURSIVE JoinLines(_)
\* the text as one sequence of pieces, "\n" between the lines
JoinLines(lines) ==
  IF lines = << >> THEN << >>
  ELSE IF Len(lines) = 1 THEN lines[1]
  ELSE lines[1] \o <<"\n">> \o JoinLines(Tail(lines))

RECURSIVE Digest(_, _)
Digest(s, acc) ==
  IF s = << >> THEN acc
  ELSE Digest(Tail(s), acc * (Len(Pieces) + 1) + PieceCode(Head(s)))

\* faulty variant: a digest of the number of lines only, which collides
HashContentWeak(content) == Len(content)

\* sha256 of the text, hex encoded: a digest that differs for different
\* texts (collision resistance), here the text's pieces read as the digits
\* of a number
HashContent(content) == Digest(JoinLines(content), 0)

\* the pieces of a line written out with the spaces between them
RECURSIVE Spaced(_)
Spaced(line) ==
  IF Len(line) <= 1 THEN line
  ELSE <<line[1], " ">> \o Spaced(Tail(line))

\* the lines after line i that are not empty
NonEmptyAfter(lines, i) == { j \in (i + 1)..Len(lines) : lines[j] # << >> }

\* ^mark\s+(.+)$ matches at line i: the line is the mark followed by text,
\* or it is the mark alone and \s+ runs over the newlines to the next line
\* that is not empty, which (.+) then takes whole
HeadingAt(lines, i, mark) ==
  /\ lines[i] # << >>
  /\ lines[i][1] = mark
  /\ \/ Len(lines[i]) >= 2
     \/ NonEmptyAfter(lines, i) # {}

HeadingText(lines, i) ==
  IF Len(lines[i]) >= 2 THEN Spaced(Tail(lines[i]))
  ELSE LET j == CHOOSE k \in NonEmptyAfter(lines, i) :
                   \A m \in NonEmptyAfter(lines, i) : k <= m
       IN Spaced(lines[j])

\* regexp.FindStringSubmatch: the leftmost match
FirstHeading(lines, mark) ==
  LET hits == { i \in 1..Len(lines) : HeadingAt(lines, i, mark) }
  IN IF hits = {} THEN << >>
     ELSE <<HeadingText(lines, CHOOSE i \in hits : \A k \in hits : i <= k)>>

\* index of the last piece of s equal to p, 0 if there is none
LastIndex(s, p) ==
  LET hits == { i \in 1..Len(s) : s[i] = p }
  IN IF hits = {} THEN 0 ELSE CHOOSE i \in hits : \A k \in hits : k <= i

\* filepath.Base for a path that does not end in a slash
Base(path) ==
  IF path = << >> THEN <<".">>
  ELSE SubSeq(path, LastIndex(path, "/") + 1, Len(path))

\* filepath.Ext: from the last dot of the name on, empty without a dot
Ext(name) ==
  IF LastIndex(name, ".") = 0 THEN << >>
  ELSE SubSeq(name, LastIndex(name, "."), Len(name))

\* strings.TrimSuffix(base, filepath.Ext(base))
TrimExt(name) == SubSeq(name, 1, Len(name) - Len(Ext(name)))

ExtractTitle(content, filename) ==
  LET h1 == FirstHeading(content, "#")
      h2 == FirstHeading(content, "##")
  IN IF h1 # << >> THEN h1[1]
     ELSE IF h2 # << >> THEN h2[1]
     ELSE TrimExt(Base(filename))

----------------------------------------------------------------------------
(* The state *)

VARIABLES
  db,      \* the tables of the SQLite database, as committed
  now,     \* time.Now(), in seconds
  ret,     \* the last call of an operation and what it returned
  nops,    \* number of calls made
  hist,    \* per identity: the texts of its last and its last but one
           \* successful IndexDocument call, <<last, prev>>; Null: no call
  rrf,     \* the calls of ReciprocalRankFusion on one input: the input
           \* lists, the number of calls, the last result and the one before
  fs,      \* the files under the root of the collection: the text of each
           \* path, Null for a path without a file
  txn,     \* the write transaction in flight, if any: its call, the
           \* statement it is at and the tables as the transaction sees them
  client,  \* the OllamaClient of the chat: its history of messages and the
           \* Chat call in flight, if any
  ui,      \* the model of the chat UI and the messages on their way to it
  server   \* the MCP server process: whether it was started, the embedder
           \* it was built with, whether it is running

vars == <<db, now, ret, nops, hist, rrf, fs, txn, client, ui, server>>

\* the variables of the store and of its callers
storeVars == <<db, now, ret, nops, hist>>

\* the database right after NewStore: initBasicSchema has created the empty
\* tables and the triggers; vectors_vec does not exist (vec_dim = 0)
EmptyDB ==
  [ content |-> {},          \* rows [hash, doc, created_at]
    documents |-> {},        \* rows [id, collection, path, title, hash, active, modified_at]
    seq |-> 0,               \* sqlite_sequence of documents (AUTOINCREMENT)
    documents_fts |-> {},    \* rows [rowid, filepath, title, body]
    content_vectors |-> {},  \* rows [hash, seq]
    vec_dim |-> 0,           \* declared width of vectors_vec, 0: no table
    vectors_vec |-> {} ]     \* rows [hash_seq, embedding]

\* no write transaction is in flight
NoTx ==
  [ active |-> FALSE, op |-> "none", args |-> << >>, t |-> 0, pc |-> "none",
    failAt |-> "none", work |-> EmptyDB, before |-> EmptyDB, after |-> EmptyDB ]

\* NewOllamaClient: the history holds the system message, no call of Chat
\* is in flight. pc is the place of the call in flight, i its loop
\* counter, calls the tool calls of the last response not handled yet,
\* toolCallsMade the flag of the call; requests, responses, sent and out
\* are kept for the properties: the requests the call has sent, the tool
\* calls of each response it got, the history of its last request and
\* what the last call returned
\* no server process yet
NoServer == [started |-> FALSE, llm |-> Nil, up |-> FALSE]

NewOllamaClient ==
  [ Messages |-> << [Role |-> "system", Content |-> <<"system prompt">>, ToolCalls |-> << >>,
                     ToolCallID |-> << >>] >>,
    pc |-> "idle", i |-> 0, calls |-> << >>, toolCallsMade |-> FALSE,
    chats |-> 0, requests |-> 0, responses |-> << >>, sent |-> << >>,
    out |-> [val |-> << >>, err |-> Nil] ]

\* initialModel: nothing typed, nothing asked. cmds are the commands
\* Update returned that have not started, mailbox the messages on their
\* way to Update, last the last event Update handled
initialModel ==
  [ isLoading |-> FALSE, input |-> << >>, history |-> << >>, messages |-> << >>,
    cmds |-> << >>, mailbox |-> << >>, last |-> "none" ]

----------------------------------------------------------------------------
(* The statements of IndexDocument and the triggers *)

\* faulty variant: a plain INSERT into a content table without its primary
\* key, a second row for a hash that is present
ContentInsertAlways(d, hash, content, t) ==
  [d EXCEPT !.content = @ \cup {[hash |-> hash, doc |-> content, created_at |-> t]}]

\* faulty variant: INSERT OR REPLACE, the row of a hash that is present is
\* written anew
ContentInsertOrReplace(d, hash, content, t) ==
  [d EXCEPT !.content = { c \in @ : c.hash # hash }
                          \cup {[hash |-> hash, doc |-> content, created_at |-> t]}]

\* INSERT OR IGNORE INTO content (hash, doc, created_at): hash is the
\* primary key, a row with the hash present is kept as it is
ContentInsertOrIgnore(d, hash, content, t) ==
  IF \E c \in d.content : c.hash = hash THEN d
  ELSE [d EXCEPT !.content = @ \cup {[hash |-> hash, doc |-> content, created_at |-> t]}]

\* (SELECT doc FROM content WHERE hash = new.hash), NULL without a row
DocOf(d, hash) ==
  IF \E c \in d.content : c.hash = hash
  THEN (CHOOSE c \in d.content : c.hash = hash).doc
  ELSE Null

\* the row the triggers insert for a documents row
FtsRow(d, new) ==
  [ rowid |-> new.id,
    filepath |-> new.collection \o <<"/">> \o new.path,
    title |-> new.title,
    body |-> DocOf(d, new.hash) ]

\* trigger documents_ai
documents_ai(d, new) ==
  [d EXCEPT !.documents_fts = @ \cup {FtsRow(d, new)}]

\* faulty variant of documents_au: the trigger without its DELETE
documents_au_NoDelete(d, old, new) ==
  [d EXCEPT !.documents_fts = @ \cup {FtsRow(d, new)}]

\* faulty variant of documents_au: the trigger inserts the old row's values
documents_au_OldRow(d, old, new) ==
  [d EXCEPT !.documents_fts =
     { f \in @ : f.rowid # old.id } \cup {FtsRow(d, old)}]

\* trigger documents_au
documents_au(d, old, new) ==
  [d EXCEPT !.documents_fts =
     { f \in @ : f.rowid # old.id } \cup {FtsRow(d, new)}]

\* faulty variant: the INSERT without its ON CONFLICT clause on a table
\* without the UNIQUE constraint, a new row for every call
DocumentsInsertAlways(d, colName, path, title, hash, t) ==
  LET new == [ id |-> d.seq + 1, collection |-> colName, path |-> path,
               title |-> title, hash |-> hash, active |-> 1,
               modified_at |-> t ]
  IN documents_ai([d EXCEPT !.documents = @ \cup {new}, !.seq = @ + 1], new)

\* INSERT INTO documents ... ON CONFLICT(collection, path) DO UPDATE SET
\* title, hash, modified_at, active = 1, with the trigger it fires
DocumentsUpsert(d, colName, path, title, hash, t) ==
  IF \E r \in d.documents : r.collection = colName /\ r.path = path
  THEN LET old == CHOOSE r \in d.documents : r.collection = colName /\ r.path = path
           new == [old EXCEPT !.title = title, !.hash = hash,
                              !.modified_at = t, !.active = 1]
       IN documents_au([d EXCEPT !.documents = (@ \ {old}) \cup {new}], old, new)
  ELSE LET new == [ id |-> d.seq + 1, collection |-> colName, path |-> path,
                    title |-> title, hash |-> hash, active |-> 1,
                    modified_at |-> t ]
       IN documents_ai([d EXCEPT !.documents = @ \cup {new}, !.seq = @ + 1], new)

\* where IndexDocument can fail: opening the transaction, one of its
\* statements (a trigger's failure is its statement's failure), the commit
IndexFailPoints == {"none", "begin", "content", "documents", "commit"}

\* what the transaction of IndexDocument has written when the call returns
IndexDocumentTx(d, colName, path, content, t, failAt) ==
  LET hash == HashContent(content)
      title == ExtractTitle(content, path)
      d1 == ContentInsertOrIgnore(d, hash, content, t)
      d2 == DocumentsUpsert(d1, colName, path, title, hash, t)
  IN CASE failAt \in {"begin", "content"} -> d
       [] failAt = "documents" -> d1
       [] OTHER -> d2

\* faulty variant: the statements run outside a transaction, what was
\* written before the failure stays
RollbackMissing(before, written) == written

\* defer tx.Rollback(): a call that returns without a successful Commit
\* leaves the database as it was when the transaction began
Rollback(before, written) == before

IndexDocument(colName, path, content, failAt) ==
  /\ nops' = nops + 1
  /\ LET written == IndexDocumentTx(db, colName, path, content, now, failAt)
     IN db' = IF failAt = "none" THEN written ELSE Rollback(db, written)
  /\ ret' = [ op |-> "IndexDocument", args |-> <<colName, path, content>>,
              val |-> Null, err |-> IF failAt = "none" THEN Nil ELSE failAt ]
  /\ hist' = IF failAt = "none"
             THEN [hist EXCEPT ![<<colName, path>>] = <<content, @[1]>>]
             ELSE hist
  /\ UNCHANGED now

\* the clock moves on between calls
Tick ==
  /\ now < MaxTime
  /\ now' = now + 1
  /\ UNCHANGED <<db, ret, nops, hist>>

----------------------------------------------------------------------------
(* GetDocument *)

\* SELECT c.doc FROM documents d JOIN content c ON d.hash = c.hash
\* WHERE d.collection = ? AND d.path = ?
GetDocumentRows(d, collection, path) ==
  { c.doc : c \in { c \in d.content :
                      \E r \in d.documents : /\ r.collection = collection
                                             /\ r.path = path
                                             /\ r.hash = c.hash } }

\* faulty variant: the error of Scan is dropped
GetDocumentResultNoErr(d, collection, path) ==
  LET rows == GetDocumentRows(d, collection, path)
  IN IF rows = {} THEN [val |-> Null, err |-> Nil]
     ELSE [val |-> CHOOSE x \in rows : TRUE, err |-> Nil]

\* QueryRow(...).Scan: sql.ErrNoRows becomes "document not found"
GetDocumentResult(d, collection, path) ==
  LET rows == GetDocumentRows(d, collection, path)
  IN IF rows = {} THEN [val |-> Null, err |-> "document not found"]
     ELSE [val |-> CHOOSE x \in rows : TRUE, err |-> Nil]

GetDocument(collection, path) ==
  /\ nops' = nops + 1
  /\ LET r == GetDocumentResult(db, collection, path)
     IN ret' = [ op |-> "GetDocument", args |-> <<collection, path>>,
                 val |-> r.val, err |-> r.err ]
  /\ UNCHANGED <<db, now, hist>>

----------------------------------------------------------------------------
(* SearchFTS: the FTS5 table with tokenize = 'porter unicode61' *)

\* the pieces unicode61 treats as separators
Separators == {"/", ".", "#", "##", " ", "\n", "\""}

\* the porter stemmer on the words of the model
Stem(w) == IF w = "versions" THEN "version" ELSE w

\* unicode61 folds the case of the words
Fold(w) == IF w = "Initial" THEN "initial" ELSE w

RECURSIVE Tokenize(_)
\* the index terms of a string: its words, stemmed, in order
Tokenize(str) ==
  IF str = << >> THEN << >>
  ELSE IF Head(str) \in Separators THEN Tokenize(Tail(str))
  ELSE <<Stem(Fold(Head(str)))>> \o Tokenize(Tail(str))

\* the phrase occurs in the column: its terms, side by side and in order
PhraseIn(phrase, terms) ==
  /\ phrase # << >>
  /\ \E i \in 1..Len(terms) :
        /\ i + Len(phrase) - 1 <= Len(terms)
        /\ SubSeq(terms, i, i + Len(phrase) - 1) = phrase

RECURSIVE SpacedLines(_)
\* a text as the string it is: lines joined by "\n", pieces by " "
SpacedLines(lines) ==
  IF lines = << >> THEN << >>
  ELSE IF Len(lines) = 1 THEN Spaced(lines[1])
  ELSE Spaced(lines[1]) \o <<"\n">> \o SpacedLines(Tail(lines))

\* documents_fts MATCH '"phrase"': the phrase occurs in one of the columns
FtsMatch(f, phrase) ==
  \/ PhraseIn(phrase, Tokenize(f.filepath))
  \/ PhraseIn(phrase, Tokenize(f.title))
  \/ PhraseIn(phrase, Tokenize(SpacedLines(f.body)))

\* strings.TrimSpace
RECURSIVE TrimLeft(_)
TrimLeft(str) ==
  IF str # << >> /\ Head(str) \in {" ", "\n"} THEN TrimLeft(Tail(str)) ELSE str

RECURSIVE TrimRight(_)
TrimRight(str) ==
  IF str # << >> /\ str[Len(str)] \in {" ", "\n"}
  THEN TrimRight(SubSeq(str, 1, Len(str) - 1)) ELSE str

TrimSpace(str) == TrimRight(TrimLeft(str))

IsNotQuote(p) == p # "\""

\* the trimmed query with its double quotes left in
CleanQueryKeepQuotes(query) == TrimSpace(query)

\* strings.ReplaceAll(query, "\"", "")
CleanQuery(query) == SelectSeq(TrimSpace(query), IsNotQuote)

\* fmt.Sprintf(`"%s"`, cleanQuery)
FtsQuery(query) == <<"\"">> \o CleanQuery(query) \o <<"\"">>

RECURSIVE Fts5StringEnd(_, _)
\* the place of the double quote that closes the string of an FTS5 query
\* whose text starts at i, a doubled double quote being a double quote of
\* the text; 0 if the string is not closed
Fts5StringEnd(q, i) ==
  IF i > Len(q) THEN 0
  ELSE IF q[i] # "\"" THEN Fts5StringEnd(q, i + 1)
  ELSE IF i + 1 <= Len(q) /\ q[i + 1] = "\"" THEN Fts5StringEnd(q, i + 2)
  ELSE i

RECURSIVE Fts5Parse(_)
\* the phrases of an FTS5 query made of strings and barewords, or the
\* error of a query that is not well formed
Fts5Parse(q) ==
  IF q = << >> THEN [err |-> Nil, phrases |-> << >>]
  ELSE IF Head(q) \in {" ", "\n"} THEN Fts5Parse(Tail(q))
  ELSE IF Head(q) = "\""
  THEN LET close == Fts5StringEnd(q, 2)
       IN IF close = 0 THEN [err |-> "unterminated string", phrases |-> << >>]
          ELSE LET rest == Fts5Parse(SubSeq(q, close + 1, Len(q)))
               IN [err |-> rest.err,
                   phrases |-> <<Tokenize(SubSeq(q, 2, close - 1))>> \o rest.phrases]
  ELSE IF Head(q) \in Separators THEN [err |-> "fts5: syntax error", phrases |-> << >>]
  ELSE LET rest == Fts5Parse(Tail(q))
       IN [err |-> rest.err, phrases |-> <<Tokenize(<<Head(q)>>)>> \o rest.phrases]

\* the error of the query of SearchFTS, Nil if it has none
SearchFTSError(query) == Fts5Parse(FtsQuery(query)).err

\* the rows the query of SearchFTS selects, before ORDER BY rank LIMIT ?:
\* those that hold every phrase of the query that has terms, none if no
\* phrase has terms
FtsHits(d, query) ==
  LET phrases == Fts5Parse(FtsQuery(query)).phrases
      terms == { k \in 1..Len(phrases) : phrases[k] # << >> }
  IN { f \in d.documents_fts :
         /\ SearchFTSError(query) = Nil
         /\ terms # {}
         /\ \A k \in terms : FtsMatch(f, phrases[k]) }

\* the orders of a set of rows
Orderings(S) ==
  { o \in [1..Cardinality(S) -> S] : \A i, j \in 1..Cardinality(S) : i # j => o[i] # o[j] }

\* LIMIT n: a negative n is no limit
Limit(rows, n) ==
  IF n < 0 \/ n >= Len(rows) THEN rows ELSE SubSeq(rows, 1, n)

\* the bytes of a piece
Chars(p) ==
  CASE p = "alpha" -> <<"a", "l", "p", "h", "a">>
    [] p = "beta" -> <<"b", "e", "t", "a">>
    [] p = "initial" -> <<"i", "n", "i", "t", "i", "a", "l">>
    [] p = "Initial" -> <<"I", "n", "i", "t", "i", "a", "l">>
    [] p = "updated" -> <<"u", "p", "d", "a", "t", "e", "d">>
    [] p = "version" -> <<"v", "e", "r", "s", "i", "o", "n">>
    [] p = "versions" -> <<"v", "e", "r", "s", "i", "o", "n", "s">>
    [] p = "md" -> <<"m", "d">>
    [] p = "MATCH" -> <<"M", "A", "T", "C", "H">>
    [] p = "Match" -> <<"M", "a", "t", "c", "h">>
    [] p = "match" -> <<"m", "a", "t", "c", "h">>
    [] p = "here" -> <<"h", "e", "r", "e">>
    [] p = "U+212A" -> <<"E2", "84", "AA">>   \* the Kelvin sign, three bytes in UTF-8
    [] p = "##" -> <<"#", "#">>
    [] p = "-> " -> <<"-", ">", " ">>
    [] p = "   " -> <<" ", " ", " ">>
    [] p = "..." -> <<".", ".", ".">>
    [] OTHER -> <<p>>

RECURSIVE Bytes(_)
\* the bytes of a string
Bytes(str) == IF str = << >> THEN << >> ELSE Chars(Head(str)) \o Bytes(Tail(str))

\* unicode.ToLower on the letters of the model
LowerChar(c) ==
  CASE c = "I" -> "i"
    [] c = "M" -> "m"
    [] c = "A" -> "a"
    [] c = "T" -> "t"
    [] c = "C" -> "c"
    [] c = "H" -> "h"
    [] OTHER -> c

IsByte(b) == b # ""

\* strings.ToLower: the lower case of each character, encoded again; the
\* lower case of the Kelvin sign U+212A is the letter k, one byte for three
ToLower(s) ==
  LET kelvin == { i \in 1..(Len(s) - 2) : SubSeq(s, i, i + 2) = Chars("U+212A") }
  IN SelectSeq([i \in 1..Len(s) |->
                  IF i \in kelvin THEN "k"
                  ELSE IF i - 1 \in kelvin \/ i - 2 \in kelvin THEN ""
                  ELSE LowerChar(s[i])],
               IsByte)

\* idx + strings.Index(s[idx:], sub), -1 if sub does not occur in s[idx:]
IndexFrom(s, sub, idx) ==
  LET at == { p \in idx..(Len(s) - Len(sub)) : SubSeq(s, p + 1, p + Len(sub)) = sub }
  IN IF at = {} THEN -1 ELSE CHOOSE p \in at : \A q \in at : p <= q

RECURSIVE OffsetsFrom(_, _, _, _)
\* the loop of extractOffsetsFromBody: "2 0 <position> <size>" for each
\* occurrence, the search going on one byte after the last position; the
\* numbers are kept as the fields strings.Fields reads back
OffsetsFrom(bodyLower, queryLower, size, idx) ==
  LET actualPos == IndexFrom(bodyLower, queryLower, idx)
  IN IF actualPos = -1 THEN << >>
     ELSE <<2, 0, actualPos, size>> \o OffsetsFrom(bodyLower, queryLower, size, actualPos + 1)

extractOffsetsFromBody(body, query) ==
  LET cleanQuery == TrimSpace(ToLower(query))
  IN IF cleanQuery = << >> THEN << >>
     ELSE OffsetsFrom(ToLower(body), ToLower(cleanQuery), Len(query), 0)

RECURSIVE MatchesOfAll(_, _)
\* the first loop without its break: every offset, whatever findAll
MatchesOfAll(parts, findAll) ==
  IF Len(parts) < 4 THEN << >>
  ELSE LET rest == SubSeq(parts, 5, Len(parts))
           m == [start |-> parts[3], end |-> parts[3] + parts[4]]
       IN IF parts[1] # 2 THEN MatchesOfAll(rest, findAll)
          ELSE <<m>> \o MatchesOfAll(rest, findAll)

RECURSIVE MatchesOf(_, _)
\* the first loop of extractMatches: the [start, end) of the offsets of
\* column 2, the first only unless findAll
MatchesOf(parts, findAll) ==
  IF Len(parts) < 4 THEN << >>
  ELSE LET rest == SubSeq(parts, 5, Len(parts))
           m == [start |-> parts[3], end |-> parts[3] + parts[4]]
       IN IF parts[1] # 2 THEN MatchesOf(rest, findAll)
          ELSE IF ~findAll THEN <<m>>
          ELSE <<m>> \o MatchesOf(rest, findAll)

RECURSIVE Split(_)
\* strings.Split(s, "\n")
Split(s) ==
  IF \A k \in 1..Len(s) : s[k] # "\n" THEN <<s>>
  ELSE LET k == CHOOSE i \in 1..Len(s) : s[i] = "\n" /\ \A j \in 1..(i - 1) : s[j] # "\n"
       IN <<SubSeq(s, 1, k - 1)>> \o Split(SubSeq(s, k + 1, Len(s)))

RECURSIVE LineOffset(_, _)
\* lineOffsets[i], i from 0: the bytes of the lines before line i, each
\* with its "\n"
LineOffset(lines, i) ==
  IF i = 0 THEN 0 ELSE LineOffset(lines, i - 1) + Len(lines[i]) + 1

\* the line a byte offset lies on, 0 if it lies on none
LineIdx(lines, start) ==
  LET on == { i \in 0..(Len(lines) - 1) :
                start >= LineOffset(lines, i) /\ start < LineOffset(lines, i + 1) }
  IN IF on = {} THEN 0 ELSE CHOOSE i \in on : \A j \in on : i <= j

RECURSIVE RenderLines(_, _, _, _)
\* the lines i..endLine, each with its prefix and a "\n"
RenderLines(lines, i, endLine, lineIdx) ==
  IF i > endLine THEN << >>
  ELSE Chars(IF i = lineIdx THEN "-> " ELSE "   ") \o lines[i + 1] \o <<"\n">>
       \o RenderLines(lines, i + 1, endLine, lineIdx)

RECURSIVE TrimRightNewlines(_)
\* strings.TrimRight(s, "\n")
TrimRightNewlines(s) ==
  IF s # << >> /\ s[Len(s)] = "\n" THEN TrimRightNewlines(SubSeq(s, 1, Len(s) - 1)) ELSE s

\* the rendered match of extractMatches for one match
RenderMatch(lines, m, n) ==
  LET lineIdx == LineIdx(lines, m.start)
      startLine == IF lineIdx - n > 0 THEN lineIdx - n ELSE 0
      endLine == IF lineIdx + n >= Len(lines) THEN Len(lines) - 1 ELSE lineIdx + n
  IN TrimRightNewlines(RenderLines(lines, startLine, endLine, lineIdx))

extractMatches(body, offsets, n, findAll) ==
  LET matches == MatchesOf(offsets, findAll)
      lines == Split(body)
  IN [k \in 1..Len(matches) |-> RenderMatch(lines, matches[k], n)]

\* the length a snippet without matches is cut to
SnippetBytes == 200

\* the SearchResult of a row, a body of SnippetBytes bytes cut as well
FtsResultCutAtLimit(f, query, contextLines, findAll, score) ==
  LET body == Bytes(SpacedLines(f.body))
      offsets == extractOffsetsFromBody(body, Bytes(query))
      matches == extractMatches(body, offsets, contextLines, findAll)
  IN [ DocID |-> f.rowid, Filepath |-> f.filepath, Title |-> f.title,
       Snippet |-> IF Len(matches) = 0
                   THEN IF Len(body) >= SnippetBytes
                        THEN SubSeq(body, 1, SnippetBytes) \o Chars("...")
                        ELSE body
                   ELSE matches[1],
       Score |-> score, Matches |-> matches ]

\* the SearchResult of a row; query is the trimmed query, score the bm25
\* rank of the row
FtsResult(f, query, contextLines, findAll, score) ==
  LET body == Bytes(SpacedLines(f.body))
      offsets == extractOffsetsFromBody(body, Bytes(query))
      matches == extractMatches(body, offsets, contextLines, findAll)
  IN [ DocID |-> f.rowid, Filepath |-> f.filepath, Title |-> f.title,
       Snippet |-> IF Len(matches) = 0
                   THEN IF Len(body) > SnippetBytes
                        THEN SubSeq(body, 1, SnippetBytes) \o Chars("...")
                        ELSE body
                   ELSE matches[1],
       Score |-> score, Matches |-> matches ]

\* the results SearchFTS can return: the hits in the order of their bm25
\* rank, cut to limit. bm25 is a negative number, the smaller the better;
\* the model leaves the order of the hits open and keeps, for the score of
\* a hit, its place in the order
SearchFTSResults(d, query, limit, contextLines, findAll) ==
  { [i \in 1..Len(Limit(o, limit)) |->
       FtsResult(o[i], TrimSpace(query), contextLines, findAll, i - 1 - Len(o))] :
      o \in Orderings(FtsHits(d, query)) }

Queries ==
  { <<"initial">>, <<"updated">>, <<"versions">>, <<" ", "\"", "initial", "\"">>, <<"x", "\"">> }
Limits == {1, 10}
ContextLines == {1}

\* what SearchFTS can return: the error of the query, or the results
SearchFTSOutcomes(d, query, limit, contextLines, findAll) ==
  IF SearchFTSError(query) # Nil THEN { [val |-> Null, err |-> SearchFTSError(query)] }
  ELSE { [val |-> r, err |-> Nil] :
           r \in SearchFTSResults(d, query, limit, contextLines, findAll) }

SearchFTS(query, limit, contextLines, findAll) ==
  /\ nops' = nops + 1
  /\ \E res \in SearchFTSOutcomes(db, query, limit, contextLines, findAll) :
        ret' = [ op |-> "SearchFTS", args |-> <<query, limit, contextLines, findAll>>,
                 val |-> res.val, err |-> res.err ]
  /\ UNCHANGED <<db, now, hist>>

----------------------------------------------------------------------------
(* The vector table *)

\* faulty variant: the table is created anew with the width of each call
EnsureVectorTableReplace(d, dim) == [d EXCEPT !.vec_dim = dim]

\* CREATE VIRTUAL TABLE IF NOT EXISTS vectors_vec USING vec0(... float[dim])
EnsureVectorTableDB(d, dim) ==
  IF d.vec_dim = 0 THEN [d EXCEPT !.vec_dim = dim] ELSE d

EnsureVectorTable(dim) ==
  /\ nops' = nops + 1
  /\ db' = EnsureVectorTableDB(db, dim)
  /\ ret' = [ op |-> "EnsureVectorTable", args |-> <<dim>>, val |-> Null, err |-> Nil ]
  /\ UNCHANGED <<now, hist>>

\* sqlite_vec.SerializeFloat32: four bytes for each float
SerializeFloat32(vec) == [bytes |-> 4 * Len(vec), floats |-> vec]

\* faulty variant: the key is built without the chunk's number
HashSeqNoSeq(hash, seq) == <<hash, "_", 0>>

\* fmt.Sprintf("%s_%d", hash, seq)
HashSeq(hash, seq) == <<hash, "_", seq>>

\* INSERT OR IGNORE INTO content_vectors (hash, seq)
ContentVectorsInsertOrIgnore(d, hash, seq) ==
  [d EXCEPT !.content_vectors = @ \cup {[hash |-> hash, seq |-> seq]}]

\* faulty variant: a vector table that takes a blob of any width
VectorsInsertErrorNoWidth(d, blob) ==
  IF d.vec_dim = 0 THEN "no such table: vectors_vec" ELSE Nil

\* the error of INSERT OR REPLACE INTO vectors_vec, Nil if it runs: the
\* table must exist and the blob must have its declared width
VectorsInsertError(d, blob) ==
  IF d.vec_dim = 0 THEN "no such table: vectors_vec"
  ELSE IF blob.bytes # 4 * d.vec_dim THEN "dimension mismatch"
  ELSE Nil

\* faulty variant: a row that holds the key is kept as it is
VectorsInsertOrIgnore(d, key, blob) ==
  IF \E v \in d.vectors_vec : v.hash_seq = key THEN d
  ELSE [d EXCEPT !.vectors_vec = @ \cup {[hash_seq |-> key, embedding |-> blob]}]

\* INSERT OR REPLACE INTO vectors_vec (hash_seq, embedding)
VectorsInsertOrReplace(d, key, blob) ==
  [d EXCEPT !.vectors_vec =
     { v \in @ : v.hash_seq # key } \cup {[hash_seq |-> key, embedding |-> blob]}]

SaveFailPoints == {"none", "begin", "content_vectors", "vectors_vec", "commit"}

\* what the transaction of SaveEmbedding has written when the call returns,
\* and the error of the call
SaveEmbeddingTx(d, hash, seq, vec, failAt) ==
  LET blob == SerializeFloat32(vec)
      key == HashSeq(hash, seq)
      d1 == ContentVectorsInsertOrIgnore(d, hash, seq)
      e2 == VectorsInsertError(d1, blob)
      d2 == VectorsInsertOrReplace(d1, key, blob)
  IN CASE failAt \in {"begin", "content_vectors"} -> [db |-> d, err |-> failAt]
       [] failAt = "vectors_vec" \/ e2 # Nil ->
            [db |-> d1, err |-> IF e2 # Nil THEN e2 ELSE failAt]
       [] OTHER -> [db |-> d2, err |-> IF failAt = "none" THEN Nil ELSE failAt]

\* fault and had are kept for the properties: the failure of the database
\* during the call and the embedding the key held before it
SaveEmbedding(hash, seq, vec, failAt) ==
  /\ nops' = nops + 1
  /\ LET tx == SaveEmbeddingTx(db, hash, seq, vec, failAt)
     IN /\ db' = IF tx.err = Nil THEN tx.db ELSE Rollback(db, tx.db)
        /\ ret' = [ op |-> "SaveEmbedding", args |-> <<hash, seq, vec>>,
                    val |-> Null, err |-> tx.err, fault |-> failAt,
                    had |-> { v.embedding : v \in { x \in db.vectors_vec :
                                                     x.hash_seq = HashSeq(hash, seq) } } ]
  /\ UNCHANGED <<now, hist>>

\* faulty variant: the query without its WHERE cv.hash IS NULL
PendingRowsAll(d) ==
  { [hash |-> r.hash, title |-> r.title, doc |-> c.doc] :
      <<r, c>> \in { rc \in d.documents \X d.content : rc[1].hash = rc[2].hash } }

\* SELECT DISTINCT d.hash, d.title, c.doc FROM documents d
\* JOIN content c ON d.hash = c.hash
\* LEFT JOIN content_vectors cv ON d.hash = cv.hash WHERE cv.hash IS NULL
PendingRows(d) ==
  { [hash |-> r.hash, title |-> r.title, doc |-> c.doc] :
      <<r, c>> \in { rc \in d.documents \X d.content :
                       /\ rc[1].hash = rc[2].hash
                       /\ ~ \E cv \in d.content_vectors : cv.hash = rc[1].hash } }

\* the maps GetPendingEmbeddings can return: res[hash] is the PendingDoc of
\* the last row scanned for the hash, and the rows come in no stated order
PendingMaps(d) ==
  LET rows == PendingRows(d)
      hashes == { r.hash : r \in rows }
  IN { m \in [hashes -> { [Body |-> r.doc, Title |-> r.title] : r \in rows }] :
         \A h \in hashes : \E r \in rows :
            r.hash = h /\ m[h] = [Body |-> r.doc, Title |-> r.title] }

GetPendingEmbeddings ==
  /\ nops' = nops + 1
  /\ \E m \in PendingMaps(db) :
        ret' = [ op |-> "GetPendingEmbeddings", args |-> << >>, val |-> m, err |-> Nil ]
  /\ UNCHANGED <<db, now, hist>>

----------------------------------------------------------------------------
(* ReciprocalRankFusion (rrf.go) *)

\* const rrfK = 60.0
rrfK == 60
\* longest input list of the fusion
MaxRrfLen == 2
\* number of calls of the fusion on one input
MaxRrfCalls == 2

RECURSIVE RrfScaleUpTo(_)
RrfScaleUpTo(n) == IF n = 0 THEN 1 ELSE (rrfK + n) * RrfScaleUpTo(n - 1)

\* scores are exact fractions, counted in units of 1 / RrfScale: every
\* 1 / (rrfK + rank + 1) of a list of the model is a whole number of units
RrfScale == RrfScaleUpTo(MaxRrfLen + 2)

\* faulty variant: the rank is taken for the position
RrfScoreOffByOne(rank) == RrfScale \div (rrfK + rank)

\* rrfScore := 1.0 / (rrfK + float64(rank+1))
RrfScore(rank) == RrfScale \div (rrfK + rank + 1)

RECURSIVE Ranked(_, _)
\* a list as the loop over it sees it: its results with their ranks from 0
Ranked(list, rank) ==
  IF list = << >> THEN << >>
  ELSE <<[rank |-> rank, result |-> Head(list)]>> \o Ranked(Tail(list), rank + 1)

RECURSIVE Occurrences(_)
\* all results with their ranks, in the order the two loops visit them
Occurrences(lists) ==
  IF lists = << >> THEN << >>
  ELSE Ranked(Head(lists), 0) \o Occurrences(Tail(lists))

\* faulty variant: every later result with matches replaces what is there
UpgradeAlways(existing, result) ==
  IF Len(result.Matches) > 0
  THEN [existing EXCEPT !.Matches = result.Matches, !.Snippet = result.Snippet]
  ELSE existing

\* the result kept for a filepath when a further result for it is met
Upgrade(existing, result) ==
  IF Len(existing.Matches) = 0 /\ Len(result.Matches) > 0
  THEN [existing EXCEPT !.Matches = result.Matches, !.Snippet = result.Snippet]
  ELSE existing

RECURSIVE Accumulate(_, _)
\* the map scores after the loops: filepath -> [result, score]
Accumulate(occs, scores) ==
  IF occs = << >> THEN scores
  ELSE LET result == Head(occs).result
           rrfScore == RrfScore(Head(occs).rank)
           fp == result.Filepath
       IN IF fp \in DOMAIN scores
          THEN Accumulate(Tail(occs),
                 [scores EXCEPT ![fp] = [ result |-> Upgrade(@.result, result),
                                          score |-> @.score + rrfScore ]])
          ELSE Accumulate(Tail(occs),
                 [f \in DOMAIN scores \cup {fp} |->
                    IF f = fp THEN [result |-> result, score |-> rrfScore]
                    ELSE scores[f]])

\* the slice fused before it is sorted, as a set: ds.result with Score set
\* to ds.score
Fused(lists) ==
  LET scores == Accumulate(Occurrences(lists), << >>)
  IN { [scores[fp].result EXCEPT !.Score = scores[fp].score] : fp \in DOMAIN scores }

\* faulty variant: the comparison of the sort the wrong way round
SortedAscending(o) == \A i, j \in 1..Len(o) : i < j => o[i].Score <= o[j].Score

\* sort.Slice with fused[i].Score > fused[j].Score
SortedDescending(o) == \A i, j \in 1..Len(o) : i < j => o[i].Score >= o[j].Score

\* the slices ReciprocalRankFusion can return: the map is ranged over in
\* an order Go does not fix and the sort orders by Score alone, so results
\* of equal score come in any order
ReciprocalRankFusion(lists) ==
  { o \in Orderings(Fused(lists)) : SortedDescending(o) }

\* the results the input lists of the fusion are made of
SR(fp, title, snippet, score, matches) ==
  [ DocID |-> 0, Filepath |-> fp, Title |-> title, Snippet |-> snippet,
    Score |-> score, Matches |-> matches ]

RrfResults ==
  { SR("X", "x", "vec x", 1, << >>),
    SR("X", "x", "-> x1", 2, <<"-> x1">>),
    SR("X", "x", "-> x2", 3, <<"-> x2", "-> x3">>),
    SR("Y", "y", "vec y", 1, << >>),
    SR("Y", "y", "-> y1", 2, <<"-> y1">>),
    SR("Z", "z", "vec z", 3, << >>) }

\* the lists of at most n results
RrfLists(n) == UNION { [1..k -> RrfResults] : k \in 0..n }

\* the inputs of the fusion: no list, one list or two lists
RrfInputs ==
  {<< >>} \cup { <<a>> : a \in RrfLists(MaxRrfLen) }
          \cup (RrfLists(MaxRrfLen) \X RrfLists(MaxRrfLen))

InitRrf ==
  /\ db = EmptyDB
  /\ now = 0
  /\ nops = 0
  /\ ret = [op |-> "NewStore", args |-> << >>, val |-> Null, err |-> Nil]
  /\ hist = [i \in Identities |-> <<Null, Null>>]
  /\ fs = [p \in FsPaths |-> Null]
  /\ txn = NoTx
  /\ client = NewOllamaClient
  /\ ui = initialModel
  /\ server = NoServer
  /\ \E lists \in RrfInputs :
        rrf = [lists |-> lists, calls |-> 0, out |-> << >>, prev |-> << >>]

\* a call of ReciprocalRankFusion on the input lists
Fuse ==
  /\ rrf.calls < MaxRrfCalls
  /\ \E o \in ReciprocalRankFusion(rrf.lists) :
        rrf' = [rrf EXCEPT !.calls = @ + 1, !.out = o, !.prev = rrf.out]
  /\ UNCHANGED <<storeVars, fs, txn, client, ui, server>>

SpecRrf == InitRrf /\ [][Fuse]_vars

(* SearchVec *)

RECURSIVE Dot(_, _)
\* the inner product of two vectors of one width
Dot(a, b) ==
  IF a = << >> THEN 0
  ELSE a[1] * b[1] + Dot(Tail(a), Tail(b))

\* distance_metric=cosine: 1 - cos of the angle of the two vectors, in
\* thousandths; the vectors of the model have length 1, so that the
\* cosine is their inner product
CosineDistance(a, b) == 1000 - 1000 * Dot(a, b)

\* the error of the KNN query on vectors_vec, Nil if it runs
VecQueryError(d, blob) ==
  IF d.vec_dim = 0 THEN "no such table: vectors_vec"
  ELSE IF blob.bytes # 4 * d.vec_dim THEN "dimension mismatch"
  ELSE Nil

\* WHERE v.embedding MATCH ? AND k = ?: the k rows of vectors_vec nearest
\* to the query, nearest first, rows equally far in any order
Nearest(d, queryVec, k) ==
  { Limit(o, k) : o \in
      { p \in Orderings(d.vectors_vec) :
          \A i, j \in 1..Len(p) :
            i < j => CosineDistance(p[i].embedding.floats, queryVec)
                       <= CosineDistance(p[j].embedding.floats, queryVec) } }

\* faulty variant: a vector joined with the documents of its content as it
\* was when the vector's marker was written, whatever their hash now
VecJoinAnyHash(d, near) ==
  { vr \in { near[i] : i \in 1..Len(near) } \X d.documents :
      \E cv \in d.content_vectors : vr[1].hash_seq = HashSeq(cv.hash, cv.seq) }

\* the rows of the joins for the nearest vectors: a vector with the
\* documents whose hash is the hash of its content_vectors row
VecJoin(d, near) ==
  { vr \in { near[i] : i \in 1..Len(near) } \X d.documents :
      /\ \E cv \in d.content_vectors :
            /\ vr[1].hash_seq = HashSeq(cv.hash, cv.seq)
            /\ vr[2].hash = cv.hash
      /\ \E c \in d.content : c.hash = vr[2].hash }

\* the length of substr(c.doc, 1, 200)
SubstrChars == 200

\* the SearchResult of a row of the join: DocID and Matches are not set,
\* Score is 1.0 - distance, in thousandths
VecResult(d, vr, queryVec) ==
  LET doc == Bytes(SpacedLines(DocOf(d, vr[2].hash)))
  IN [ DocID |-> 0,
       Filepath |-> vr[2].collection \o <<"/">> \o vr[2].path,
       Title |-> vr[2].title,
       Snippet |-> SubSeq(doc, 1, IF Len(doc) < SubstrChars THEN Len(doc) ELSE SubstrChars),
       Score |-> 1000 - CosineDistance(vr[1].embedding.floats, queryVec),
       Matches |-> << >> ]

\* what SearchVec can return: the rows of the join ORDER BY v.distance,
\* rows equally far in any order, or the error of the query
SearchVecResults(d, queryVec, limit) ==
  LET e == VecQueryError(d, SerializeFloat32(queryVec))
  IN IF e # Nil THEN { [val |-> Null, err |-> e] }
     ELSE { [ val |-> [i \in 1..Len(o) |-> VecResult(d, o[i], queryVec)], err |-> Nil ] :
              o \in UNION { { p \in Orderings(VecJoin(d, near)) :
                                \A i, j \in 1..Len(p) :
                                  i < j => CosineDistance(p[i][1].embedding.floats, queryVec)
                                             <= CosineDistance(p[j][1].embedding.floats, queryVec) } :
                            near \in Nearest(d, queryVec, limit) } }

SearchVec(queryVec, limit) ==
  /\ nops' = nops + 1
  /\ \E res \in SearchVecResults(db, queryVec, limit) :
        ret' = [ op |-> "SearchVec", args |-> <<queryVec, limit>>,
                 val |-> res.val, err |-> res.err ]
  /\ UNCHANGED <<db, now, hist>>

----------------------------------------------------------------------------
(* GetStats *)

\* faulty variant: COUNT(collection) without DISTINCT
CountCollectionsAll(d) == Cardinality({ r \in d.documents : r.active = 1 })

\* SELECT COUNT(DISTINCT collection) FROM documents WHERE active=1
CountCollections(d) ==
  Cardinality({ r.collection : r \in { x \in d.documents : x.active = 1 } })

\* SELECT count(*) FROM sqlite_master WHERE name='vectors_vec'
VectorTableExists(d) == IF d.vec_dim # 0 THEN 1 ELSE 0

GetStatsResult(d) ==
  [ TotalDocuments |-> Cardinality({ r \in d.documents : r.active = 1 }),
    Collections |-> CountCollections(d),
    Embeddings |-> IF VectorTableExists(d) = 1 THEN Cardinality(d.vectors_vec) ELSE 0 ]

GetStats ==
  /\ nops' = nops + 1
  /\ ret' = [ op |-> "GetStats", args |-> << >>, val |-> GetStatsResult(db), err |-> Nil ]
  /\ UNCHANGED <<db, now, hist>>

----------------------------------------------------------------------------
(* SearchHybrid *)

\* faulty variant: no more candidates than results
CandidateLimitSame(limit) == limit

\* candidateLimit := limit * 2
CandidateLimit(limit) == limit * 2

\* faulty variant: the lexical results stand in for the fused ones
VectorSearchFailedDegrade(ftsResults, e) == [val |-> ftsResults, err |-> Nil]

\* return nil, fmt.Errorf("vector search failed: %w", err)
VectorSearchFailed(ftsResults, e) ==
  [ val |-> Null,
    err |-> CASE e = "no such table: vectors_vec" ->
                   "vector search failed: no such table: vectors_vec"
              [] e = "dimension mismatch" -> "vector search failed: dimension mismatch"
              [] OTHER -> "vector search failed" ]

\* return nil, fmt.Errorf("FTS search failed: %w", err)
FtsSearchFailed(e) == [val |-> Null, err |-> "FTS search failed"]

\* if len(fused) > limit { fused = fused[:limit] }
ApplyFinalLimit(fused, limit) ==
  IF Len(fused) > limit THEN SubSeq(fused, 1, limit) ELSE fused

\* where the queries of the two searches can fail
HybridFailPoints == {"none", "fts", "vec"}

\* what SearchHybrid can return
SearchHybridResults(d, textQuery, queryVec, limit, failAt) ==
  LET candidateLimit == CandidateLimit(limit)
      fts == IF failAt = "fts" THEN { [val |-> Null, err |-> failAt] }
             ELSE SearchFTSOutcomes(d, textQuery, candidateLimit, 1, FALSE)
      vec == IF failAt = "vec" THEN { [val |-> Null, err |-> failAt] }
             ELSE SearchVecResults(d, queryVec, candidateLimit)
  IN UNION { IF f.err # Nil THEN { FtsSearchFailed(f.err) }
             ELSE UNION { IF v.err # Nil THEN { VectorSearchFailed(f.val, v.err) }
                          ELSE { [val |-> ApplyFinalLimit(fused, limit), err |-> Nil] :
                                   fused \in ReciprocalRankFusion(<<f.val, v.val>>) } :
                          v \in vec } :
             f \in fts }

\* ret.fault is the search whose query the database failed, if any
SearchHybrid(textQuery, queryVec, limit, failAt) ==
  /\ nops' = nops + 1
  /\ \E res \in SearchHybridResults(db, textQuery, queryVec, limit, failAt) :
        ret' = [ op |-> "SearchHybrid", args |-> <<textQuery, queryVec, limit>>,
                 val |-> res.val, err |-> res.err, fault |-> failAt ]
  /\ UNCHANGED <<db, now, hist>>

(* reindex: the walk over the files of a collection *)

\* filepath.Walk visits the entries of a directory in lexical order: the
\* directory b with b/x.md, then x.md, then x.txt
WalkOrder == <<PathBX, PathX, PathTxt>>

\* !info.IsDir() && strings.HasSuffix(info.Name(), ".md")
IsMarkdown(path) ==
  LET name == Base(path)
  IN Len(name) >= 2 /\ SubSeq(name, Len(name) - 1, Len(name)) = <<".", "md">>

\* the files the walk hands to IndexDocument, in the order of the walk
WalkedFiles(files) ==
  SelectSeq(WalkOrder, LAMBDA p : files[p] # Null /\ IsMarkdown(p))

\* faulty variant: the walk ends at the first file that fails
OnIndexErrorAbort(rest) == << >>

\* log.Printf("Error indexing ...") and return nil: the walk goes on
OnIndexError(rest) == rest

RECURSIVE ReindexWalk(_, _, _, _, _, _, _)
\* the database and the history after the walk over paths; the
\* IndexDocument calls for the paths in failing fail at failAt
ReindexWalk(d, h, colName, paths, files, failing, failAt) ==
  IF paths = << >> THEN [db |-> d, hist |-> h]
  ELSE LET relPath == Head(paths)
           content == files[relPath]
           failed == relPath \in failing
           written == IndexDocumentTx(d, colName, relPath, content, now,
                                      IF failed THEN failAt ELSE "none")
       IN IF failed
          THEN ReindexWalk(Rollback(d, written), h, colName,
                           OnIndexError(Tail(paths)), files, failing, failAt)
          ELSE ReindexWalk(written,
                           [h EXCEPT ![<<colName, relPath>>] = <<content, @[1]>>],
                           colName, Tail(paths), files, failing, failAt)

\* reindex(colName, rootPath); ret.failed are the files whose IndexDocument
\* call failed
reindex(colName, failing, failAt) ==
  /\ failing \subseteq { p \in FsPaths : fs[p] # Null /\ IsMarkdown(p) }
  /\ nops' = nops + 1
  /\ LET after == ReindexWalk(db, hist, colName, WalkedFiles(fs), fs, failing, failAt)
     IN /\ db' = after.db
        /\ hist' = after.hist
  /\ ret' = [ op |-> "reindex", args |-> <<colName>>, val |-> Null, err |-> Nil,
              failed |-> failing ]
  /\ UNCHANGED <<now, fs>>

\* a file is written under the root
WriteFile(path, content) ==
  /\ fs[path] # content
  /\ fs' = [fs EXCEPT ![path] = content]
  /\ UNCHANGED storeVars

\* a file is removed
RemoveFile(path) ==
  /\ fs[path] # Null
  /\ fs' = [fs EXCEPT ![path] = Null]
  /\ UNCHANGED storeVars

(* generateEmbeddings: the loop over the pending contents *)

\* the chunks of splitter.SplitText, a library of its own: the model takes
\* each line of the text that is not empty for a chunk
Chunks(body) == SelectSeq(body, LAMBDA line : line # << >>)

\* the vector the embedder returns for a chunk: its width is that of the
\* embedder's model, whatever width the vector table has
EmbedVector(width) == [k \in 1..width |-> IF k = 1 THEN 1 ELSE 0]

\* the chunks of one content, in the order of the inner loop; none if the
\* splitter fails for the content (log.Printf and continue)
ChunksOf(hash, body, splitFails) ==
  IF hash \in splitFails THEN << >>
  ELSE [i \in 1..Len(Chunks(body)) |-> [hash |-> hash, seq |-> i - 1]]

RECURSIVE WorkList(_, _, _)
\* the chunks the two loops come to, in their order; order is the order in
\* which range hands out the keys of the map
WorkList(pending, order, splitFails) ==
  IF order = << >> THEN << >>
  ELSE ChunksOf(Head(order), pending[Head(order)].Body, splitFails)
       \o WorkList(pending, Tail(order), splitFails)

RECURSIVE EmbedLoop(_, _, _, _, _, _)
\* the database when generateEmbeddings is over, what it did for each
\* chunk it came to, and the error it ended the process with, Nil if it
\* returned. Embed fails for the chunks in embedFails; the database fails
\* the commit of SaveEmbedding for the chunks in saveFails
EmbedLoop(d, work, done, embedFails, saveFails, width) ==
  IF work = << >> THEN [db |-> d, log |-> done, err |-> Nil]
  ELSE LET chunk == Head(work)
       IN IF chunk \in embedFails
          THEN \* log.Printf("Error embedding: %v", err); continue
               EmbedLoop(d, Tail(work), Append(done, [chunk |-> chunk, did |-> "embed error"]),
                         embedFails, saveFails, width)
          ELSE LET tx == SaveEmbeddingTx(d, chunk.hash, chunk.seq, EmbedVector(width),
                                         IF chunk \in saveFails THEN "commit" ELSE "none")
               IN IF tx.err # Nil
                  THEN \* log.Fatal(err): the process exits
                       [ db |-> Rollback(d, tx.db),
                         log |-> Append(done, [chunk |-> chunk, did |-> "save error"]),
                         err |-> tx.err ]
                  ELSE EmbedLoop(tx.db, Tail(work), Append(done, [chunk |-> chunk, did |-> "saved"]),
                                 embedFails, saveFails, width)

\* the elements of a sequence
Range(s) == { s[k] : k \in 1..Len(s) }

\* generateEmbeddings() with an embedder of the given width at hand
\* (getEmbedder returned no error). The splitter fails for the contents
\* splitFails, Embed fails for the chunks embedFails, the database fails
\* the commit of SaveEmbedding for the chunk saveFails. ret.val is what
\* the run did for each chunk it came to, ret.err the error log.Fatal
\* ended the process with
generateEmbeddings(width) ==
  /\ nops' = nops + 1
  /\ \E pending \in PendingMaps(db) :
       \E order \in Orderings(DOMAIN pending), splitFails \in SUBSET DOMAIN pending :
         LET work == WorkList(pending, order, splitFails)
         IN \E embedFails \in SUBSET Range(work),
               saveFails \in {{}} \cup { {c} : c \in Range(work) } :
              LET run == EmbedLoop(db, work, << >>, embedFails, saveFails, width)
              IN /\ db' = run.db
                 /\ ret' = [ op |-> "generateEmbeddings", args |-> <<width>>,
                             val |-> run.log, err |-> run.err,
                             pending |-> pending, splitFails |-> splitFails ]
  /\ UNCHANGED <<now, hist>>

(* The write transactions statement by statement, with reads in between *)

\* faulty variant: a read sees the tables as the transaction in flight has
\* written them so far
ObservedUncommitted(committed, work, active) == IF active THEN work ELSE committed

\* a read runs on another connection of the pool: in WAL mode it sees the
\* last committed tables
Observed(committed, work, active) == committed

\* the tables a call commits if nothing fails, from the tables it starts on
CommitsTo(d, op, args, t, failAt) ==
  IF op = "IndexDocument"
  THEN IF failAt = "none"
       THEN IndexDocumentTx(d, args[1], args[2], args[3], t, "none") ELSE d
  ELSE LET x == SaveEmbeddingTx(d, args[1], args[2], args[3], failAt)
       IN IF x.err = Nil THEN x.db ELSE d

\* s.DB.Begin() of IndexDocument or SaveEmbedding; before and after are
\* kept for the properties
Begin(op, args, failAt) ==
  /\ ~ txn.active
  /\ nops' = nops + 1
  /\ IF failAt = "begin"
     THEN /\ ret' = [op |-> op, args |-> args, val |-> Null, err |-> failAt]
          /\ UNCHANGED txn
     ELSE /\ txn' = [ active |-> TRUE, op |-> op, args |-> args, t |-> now,
                     pc |-> IF op = "IndexDocument" THEN "content" ELSE "content_vectors",
                     failAt |-> failAt, work |-> db, before |-> db,
                     after |-> CommitsTo(db, op, args, now, failAt) ]
          /\ UNCHANGED ret
  /\ UNCHANGED <<db, now, hist>>

\* the call returns an error: defer tx.Rollback()
Abort(err) ==
  /\ db' = Rollback(txn.before, txn.work)
  /\ ret' = [op |-> txn.op, args |-> txn.args, val |-> Null, err |-> err]
  /\ txn' = NoTx
  /\ UNCHANGED <<now, nops, hist>>

\* the tables of the transaction after its statement at pc
ExecStatement(work, pc, args, t) ==
  CASE pc = "content" ->
         ContentInsertOrIgnore(work, HashContent(args[3]), args[3], t)
    [] pc = "documents" ->
         DocumentsUpsert(work, args[1], args[2], ExtractTitle(args[3], args[2]),
                         HashContent(args[3]), t)
    [] pc = "content_vectors" -> ContentVectorsInsertOrIgnore(work, args[1], args[2])
    [] pc = "vectors_vec" ->
         VectorsInsertOrReplace(work, HashSeq(args[1], args[2]), SerializeFloat32(args[3]))

\* the statement after the one at pc
NextStatement(pc) ==
  CASE pc = "content" -> "documents"
    [] pc = "content_vectors" -> "vectors_vec"
    [] OTHER -> "commit"

\* tx.Exec of the statement the transaction is at
Exec ==
  /\ txn.active
  /\ txn.pc # "commit"
  /\ LET e == IF txn.pc = "vectors_vec"
              THEN VectorsInsertError(txn.work, SerializeFloat32(txn.args[3])) ELSE Nil
     IN IF txn.failAt = txn.pc \/ e # Nil
        THEN Abort(IF e # Nil THEN e ELSE txn.failAt)
        ELSE /\ txn' = [txn EXCEPT !.work = ExecStatement(txn.work, txn.pc, txn.args, txn.t),
                                 !.pc = NextStatement(txn.pc)]
             /\ UNCHANGED <<db, now, ret, nops, hist>>

\* tx.Commit()
Commit ==
  /\ txn.active
  /\ txn.pc = "commit"
  /\ IF txn.failAt = "commit" THEN Abort(txn.failAt)
     ELSE /\ db' = txn.work
          /\ ret' = [op |-> txn.op, args |-> txn.args, val |-> Null, err |-> Nil]
          /\ hist' = IF txn.op = "IndexDocument"
                     THEN [hist EXCEPT ![<<txn.args[1], txn.args[2]>>] = <<txn.args[3], @[1]>>]
                     ELSE hist
          /\ txn' = NoTx
          /\ UNCHANGED <<now, nops>>

\* what a read returns on the tables d
ReadResults(d, op, args) ==
  CASE op = "SearchFTS" ->
         SearchFTSOutcomes(d, args[1], args[2], args[3], args[4])
    [] op = "SearchVec" -> SearchVecResults(d, args[1], args[2])
    [] op = "GetPendingEmbeddings" -> { [val |-> m, err |-> Nil] : m \in PendingMaps(d) }
    [] op = "GetDocument" -> { GetDocumentResult(d, args[1], args[2]) }

\* a read, at any moment of a write transaction or outside one
Read(op, args) ==
  /\ nops' = nops + 1
  /\ \E r \in ReadResults(Observed(db, txn.work, txn.active), op, args) :
        ret' = [op |-> op, args |-> args, val |-> r.val, err |-> r.err]
  /\ UNCHANGED <<db, now, hist, txn>>

----------------------------------------------------------------------------
(* The specification *)

\* hashes handed to SaveEmbedding: those of the texts
Hashes == { HashContent(t) : t \in Texts }

Init ==
  /\ db = EmptyDB
  /\ now = 0
  /\ nops = 0
  /\ ret = [op |-> "NewStore", args |-> << >>, val |-> Null, err |-> Nil]
  /\ hist = [i \in Identities |-> <<Null, Null>>]
  /\ fs = [p \in FsPaths |-> Null]
  /\ txn = NoTx
  /\ client = NewOllamaClient
  /\ ui = initialModel
  /\ server = NoServer
  /\ rrf = [lists |-> << >>, calls |-> 0, out |-> << >>, prev |-> << >>]

\* the calls on the documents and their lexical index
NextDocs ==
  /\ \/ /\ nops < MaxOps
        /\ \/ \E i \in Identities, t \in Texts, f \in IndexFailPoints :
                 IndexDocument(i[1], i[2], t, f)
           \/ \E i \in Identities : GetDocument(i[1], i[2])
           \/ \E q \in Queries, n \in Limits, c \in ContextLines, a \in BOOLEAN :
                 SearchFTS(q, n, c, a)
     \/ Tick
  /\ UNCHANGED <<rrf, fs, txn, client, ui, server>>

SpecDocs == Init /\ [][NextDocs]_vars

\* the calls of the embedding pipeline on indexed documents
NextVec ==
  /\ nops < MaxVecOps
  /\ \/ \E i \in Identities, t \in Texts :
           IndexDocument(i[1], i[2], t, "none")
     \/ \E dim \in Dims : EnsureVectorTable(dim)
     \/ \E h \in Hashes, s \in Seqs, v \in Vectors, f \in SaveFailPoints :
           SaveEmbedding(h, s, v, f)
     \/ GetPendingEmbeddings
  /\ UNCHANGED <<rrf, fs, txn, client, ui, server>>

SpecVec == Init /\ [][NextVec]_vars

\* number of calls in one behaviour of SpecHybrid
MaxHybridOps == 5

\* the calls that fill the index and the vector table, and hybrid searches
HybridTexts == { TextInitial, TextBeta }
HybridQueries == { <<"initial">>, <<"updated">> }
HybridVectors == { <<1, 0>>, <<0, 1>> }
HybridLimits == {1, 2}

NextHybrid ==
  /\ nops < MaxHybridOps
  /\ \/ \E i \in Identities, t \in HybridTexts :
           IndexDocument(i[1], i[2], t, "none")
     \/ EnsureVectorTable(2)
     \/ \E t \in HybridTexts, v \in HybridVectors :
           SaveEmbedding(HashContent(t), 0, v, "none")
     \/ \E q \in HybridQueries, n \in HybridLimits, f \in HybridFailPoints :
           SearchHybrid(q, <<1, 0>>, n, f)
  /\ UNCHANGED <<rrf, fs, txn, client, ui, server>>

SpecHybrid == Init /\ [][NextHybrid]_vars

\* number of reindex runs in one behaviour of SpecReindex
MaxReindexOps == 3

\* the texts of the files
FsTexts == { TextInitial, TextUpdated }

\* the files of collection "a" change and the collection is indexed again
NextReindex ==
  /\ \/ /\ nops < MaxReindexOps
        /\ \E failing \in SUBSET FsPaths, f \in {"documents", "commit"} :
              reindex(ColA, failing, f)
     \/ \E p \in FsPaths, t \in FsTexts : WriteFile(p, t)
     \/ \E p \in FsPaths : RemoveFile(p)
  /\ UNCHANGED <<rrf, txn, client, ui, server>>

SpecReindex == Init /\ [][NextReindex]_vars

\* number of calls in one behaviour of SpecEmbed
MaxEmbedOps == 4

\* the texts of the documents that are embedded
\* an empty file has no chunk
TextEmpty == << >>
EmbedTexts == { TextInitial, TextUpdated, TextEmpty }

\* documents are indexed and the pending contents embedded
NextEmbed ==
  /\ nops < MaxEmbedOps
  /\ \/ \E i \in Identities, t \in EmbedTexts :
           IndexDocument(i[1], i[2], t, "none")
     \/ \E dim \in Dims : EnsureVectorTable(dim)
     \/ \E width \in Dims : generateEmbeddings(width)
  /\ UNCHANGED <<rrf, fs, txn, client, ui, server>>

SpecEmbed == Init /\ [][NextEmbed]_vars

\* number of calls in one behaviour of SpecStore
MaxStoreOps == 3

\* the inputs of the calls of SpecStore
StoreTexts == { TextInitial, TextUpdated }
StoreVectors == { <<1, 0>>, <<0, 1>> }

\* every operation of the store, the clock running
NextStore ==
  /\ \/ /\ nops < MaxStoreOps
        /\ \/ \E i \in Identities, t \in StoreTexts, f \in {"none", "documents", "commit"} :
                 IndexDocument(i[1], i[2], t, f)
           \/ EnsureVectorTable(2)
           \/ \E t \in StoreTexts, s \in Seqs, v \in StoreVectors,
                 f \in {"none", "vectors_vec", "commit"} :
                 SaveEmbedding(HashContent(t), s, v, f)
           \/ \E i \in Identities : GetDocument(i[1], i[2])
           \/ \E q \in HybridQueries, a \in BOOLEAN : SearchFTS(q, 10, 1, a)
           \/ \E v \in StoreVectors : SearchVec(v, 1)
           \/ \E q \in HybridQueries : SearchHybrid(q, <<1, 0>>, 1, "none")
           \/ GetPendingEmbeddings
           \/ GetStats
     \/ Tick
  /\ UNCHANGED <<rrf, fs, txn, client, ui, server>>

SpecStore == Init /\ [][NextStore]_vars

\* number of calls in one behaviour of SpecTx
MaxTxOps == 4

\* the reads of SpecTx
TxReads ==
  { <<"SearchFTS", <<q, 10, 1, FALSE>>>> : q \in HybridQueries }
    \cup { <<"SearchVec", <<<<1, 0>>, 2>>>>, <<"GetPendingEmbeddings", << >>>> }
    \cup { <<"GetDocument", i>> : i \in Identities }

\* writes run statement by statement and reads run at any moment
NextTx ==
  /\ \/ /\ nops < MaxTxOps
        /\ \/ \E i \in Identities, t \in StoreTexts, f \in {"none", "begin", "documents", "commit"} :
                 Begin("IndexDocument", <<i[1], i[2], t>>, f)
           \/ \E t \in StoreTexts, v \in StoreVectors, f \in {"none", "vectors_vec", "commit"} :
                 Begin("SaveEmbedding", <<HashContent(t), 0, v>>, f)
           \/ \E r \in TxReads : Read(r[1], r[2])
           \/ ~ txn.active /\ EnsureVectorTable(2) /\ UNCHANGED txn
     \/ Exec
     \/ Commit
  /\ UNCHANGED <<rrf, fs, client, ui, server>>

SpecTx == Init /\ [][NextTx]_vars

\* the bodies, queries and context sizes of the rows SearchFTS scans
MaxContextLines == 2
BodyExample == << <<"a">>, <<"b">>, <<"MATCH", "here">>, <<"c">>, <<"d">> >>
BodyThrice == << <<"match", "Match">>, <<"b">>, <<"MATCH", "here">> >>
BodyKelvin == << <<"U+212A">>, <<"match", "here">> >>
BodyLong == [k \in 1..26 |-> <<"version">>]
BodyAtLimit == [k \in 1..23 |-> <<"version">>] \o << <<"versions">>, <<"initial">> >>
MatchBodies == {BodyExample, BodyThrice, BodyKelvin, BodyLong, BodyAtLimit, TextInitial}
MatchQueries == { <<"MATCH">>, <<"match">>, <<"version">>, <<"versions">>, <<"alpha">> }

\* a row of documents_fts that matched, and the arguments of the call
InitScan ==
  /\ db = EmptyDB
  /\ now = 0
  /\ nops = 0
  /\ hist = [i \in Identities |-> <<Null, Null>>]
  /\ fs = [p \in FsPaths |-> Null]
  /\ txn = NoTx
  /\ client = NewOllamaClient
  /\ ui = initialModel
  /\ server = NoServer
  /\ rrf = [lists |-> << >>, calls |-> 0, out |-> << >>, prev |-> << >>]
  /\ \E body \in MatchBodies, query \in MatchQueries,
        n \in 0..MaxContextLines, findAll \in BOOLEAN :
        ret = [op |-> "row", args |-> <<body, query, n, findAll>>, val |-> Null, err |-> Nil]

\* the body of the loop of SearchFTS over its rows, on one row
ScanRow ==
  /\ ret.op = "row"
  /\ ret' = [ret EXCEPT !.op = "ScanRow",
                        !.val = FtsResult([rowid |-> 1, filepath |-> PathX, title |-> << >>,
                                           body |-> ret.args[1]],
                                          TrimSpace(ret.args[2]), ret.args[3], ret.args[4], -1)]
  /\ UNCHANGED <<db, now, nops, hist, rrf, fs, txn, client, ui, server>>

SpecScan == InitScan /\ [][ScanRow]_vars

\* the texts and file names whose title IndexDocument stores: texts of up
\* to MaxTitleLines lines, with and without headings, a mark alone on its
\* line and empty lines
MaxTitleLines == 2
MaxTitleOps == 1
TitleLines == { <<"#", "alpha">>, <<"##", "beta">>, <<"#">>, <<"initial">>, << >> }
TitleTexts == UNION { [1..n -> TitleLines] : n \in 1..MaxTitleLines }
TitlePaths == { PathX, PathBX, PathTxt, <<"x">> }

NextTitle ==
  /\ nops < MaxTitleOps
  /\ \E content \in TitleTexts, path \in TitlePaths : IndexDocument(ColA, path, content, "none")
  /\ UNCHANGED <<rrf, fs, txn, client, ui, server>>

SpecTitle == Init /\ [][NextTitle]_vars

\* the vector search over documents that change their text and share it,
\* and over contents of several chunks
MaxSearchOps == 5
SearchIdentities == { <<ColA, PathX>>, <<ColAB, PathX>> }

NextSearch ==
  /\ nops < MaxSearchOps
  /\ \/ \E i \in SearchIdentities, t \in StoreTexts : IndexDocument(i[1], i[2], t, "none")
     \/ EnsureVectorTable(2)
     \/ \E t \in StoreTexts, s \in Seqs : SaveEmbedding(HashContent(t), s, <<1, 0>>, "none")
     \/ \E v \in StoreVectors, n \in HybridLimits : SearchVec(v, n)
     \/ SearchHybrid(<<"initial">>, <<1, 0>>, 1, "none")
  /\ UNCHANGED <<rrf, fs, txn, client, ui, server>>

SpecSearch == Init /\ [][NextSearch]_vars

----------------------------------------------------------------------------
(* The chat: OllamaClient.Chat and the Update of the UI *)

\* for i := 0; i < 5; i++
MaxTurns == 5

\* what the model answers and what the user types
MaxChats == 2
ToolCallLists == { <<"badargs", "toolerr", "empty", "ok">> }
FinalTexts == { <<"answer">>, << >> }
RequestErrors == { "network error", "ollama API error", "decode error" }
Inputs == { <<" ">>, <<"q">> }

Message(role, content, toolCalls, toolCallID) ==
  [Role |-> role, Content |-> content, ToolCalls |-> toolCalls, ToolCallID |-> toolCallID]

\* the tool calls of a response; the model gives each call an ID of its own
ToolCallsOf(list, chat, turn) ==
  [k \in 1..Len(list) |-> [ID |-> <<chat, turn, k>>, kind |-> list[k]]]

\* faulty variant: the loop goes on while i <= 5
TurnsLeftOneMore(i) == i <= MaxTurns

\* i < 5
TurnsLeft(i) == i < MaxTurns

\* the text of the tool message of a call: the arguments are a string that
\* is no JSON, CallTool returns an error, or the texts of its result, with
\* a fixed text for a result without text
ToolContent(kind) ==
  CASE kind = "badargs" -> <<"Error parsing arguments JSON">>
    [] kind = "toolerr" -> <<"Error executing tool">>
    [] kind = "empty" -> <<"Tool executed successfully but returned no output.">>
    [] OTHER -> <<"output">>

\* faulty variant: a call whose arguments cannot be parsed is passed over
ToolMessagesSkipUnparsed(tc) ==
  IF tc.kind = "badargs" THEN << >>
  ELSE << Message("tool", ToolContent(tc.kind), << >>, tc.ID) >>

\* the messages the loop over the tool calls appends for one call
ToolMessages(tc) == << Message("tool", ToolContent(tc.kind), << >>, tc.ID) >>

\* the variables of the chat
chatVars == <<client, ui>>

\* Chat returns: the goroutine of the command hands its responseMsg to the
\* program
Return(c, content, err) ==
  /\ client' = [c EXCEPT !.pc = "idle", !.calls = << >>,
                         !.out = [val |-> content, err |-> err]]
  /\ ui' = [ui EXCEPT !.mailbox = Append(@, [content |-> content, err |-> err])]

\* the command of Enter starts: Chat appends the user message
ChatStart ==
  /\ ui.cmds # << >>
  /\ client.pc = "idle"
  /\ client' = [client EXCEPT !.Messages = Append(@, Message("user", Head(ui.cmds), << >>, << >>)),
                              !.pc = "request", !.i = 0, !.calls = << >>,
                              !.toolCallsMade = FALSE, !.chats = @ + 1,
                              !.requests = 0, !.responses = << >>]
  /\ ui' = [ui EXCEPT !.cmds = Tail(@)]

\* one request of the loop and its response: the request fails, or the
\* response is appended and either ends the call or brings tool calls
ChatRequest ==
  /\ client.pc = "request"
  /\ LET c == [client EXCEPT !.requests = @ + 1, !.sent = client.Messages]
     IN \/ \E e \in RequestErrors : Return(c, << >>, e)
        \/ \E text \in FinalTexts :
             LET finalContent ==
                   IF text # << >> THEN text
                   ELSE IF c.toolCallsMade
                   THEN <<"(Model finished execution but returned no summary text)">>
                   ELSE <<"(Model returned empty response)">>
             IN Return([c EXCEPT !.Messages = Append(@, Message("assistant", finalContent, << >>, << >>)),
                                 !.responses = Append(@, << >>)],
                       finalContent, Nil)
        \/ \E list \in ToolCallLists :
             LET calls == ToolCallsOf(list, c.chats, c.i)
             IN /\ client' = [c EXCEPT !.Messages = Append(@, Message("assistant", << >>, calls, << >>)),
                                       !.responses = Append(@, calls),
                                       !.toolCallsMade = TRUE,
                                       !.calls = calls, !.pc = "tools"]
                /\ UNCHANGED ui

\* the loop over the tool calls of the response, for one call; after the
\* last call the loop of Chat goes to its next turn
ChatTool ==
  /\ client.pc = "tools"
  /\ LET tc == Head(client.calls)
         last == Len(client.calls) = 1
     IN client' = [client EXCEPT !.Messages = @ \o ToolMessages(tc),
                                 !.calls = Tail(@),
                                 !.i = IF last THEN @ + 1 ELSE @,
                                 !.pc = IF ~ last THEN "tools"
                                        ELSE IF TurnsLeft(client.i + 1) THEN "request"
                                        ELSE "cleanup"]
  /\ UNCHANGED ui

\* after the loop: the turn limit is reached
ChatCleanup ==
  /\ client.pc = "cleanup"
  /\ IF client.Messages[Len(client.Messages)].Role = "tool"
     THEN Return([client EXCEPT !.Messages = Append(@, Message("assistant", <<"(Conversation turn limit reached)">>, << >>, << >>))],
                 <<"(Conversation turn limit reached)">>, "max conversation turns exceeded")
     ELSE Return(client, << >>, "unexpected chat state")

\* faulty variant: Enter is taken while a response is pending
EnterBlockedNever(m) == FALSE

\* if m.isLoading { return m, nil }
EnterBlocked(m) == m.isLoading

\* a key that changes the text of the input
Type(v) ==
  /\ v # ui.input
  /\ ui' = [ui EXCEPT !.input = v]
  /\ UNCHANGED client

\* Update for tea.KeyEnter
Enter ==
  /\ ui' = IF EnterBlocked(ui) THEN [ui EXCEPT !.last = "enter while loading"]
           ELSE IF TrimSpace(ui.input) = << >> THEN [ui EXCEPT !.last = "enter on nothing"]
           ELSE [ui EXCEPT !.history = Append(@, TrimSpace(ui.input)),
                           !.messages = Append(@, [Role |-> "You", Text |-> TrimSpace(ui.input)]),
                           !.input = << >>,
                           !.isLoading = TRUE,
                           !.cmds = Append(@, TrimSpace(ui.input)),
                           !.last = "enter"]
  /\ UNCHANGED client

\* Update for responseMsg
Response ==
  /\ ui.mailbox # << >>
  /\ LET msg == Head(ui.mailbox)
     IN ui' = [ui EXCEPT !.isLoading = FALSE,
                         !.messages = Append(@, IF msg.err # Nil
                                                THEN [Role |-> "Error", Text |-> <<msg.err>>]
                                                ELSE [Role |-> "qmd", Text |-> msg.content]),
                         !.mailbox = Tail(@)]
  /\ UNCHANGED client

NextChat ==
  /\ \/ ChatStart
     \/ ChatRequest
     \/ ChatTool
     \/ ChatCleanup
     \/ \E v \in Inputs : Type(v)
     \/ (ui.isLoading \/ client.chats + Len(ui.cmds) < MaxChats) /\ Enter
     \/ Response
  /\ UNCHANGED <<storeVars, rrf, fs, txn, server>>

SpecChat == Init /\ [][NextChat]_vars

\* a step of a call of Chat that is running
ChatStep == ChatRequest \/ ChatTool \/ ChatCleanup

\* a running call goes on: every request ends, with a response or with an
\* error (the HTTP client has a timeout), and every tool returns
SpecChatFair == SpecChat /\ WF_chatVars(ChatStep)

----------------------------------------------------------------------------
(* The MCP server: cmdServer and the handlers of vsearch and query *)

MaxServerOps == 3

\* how the start of the server gets its embedder: embeddings are not
\* configured; getEmbedder fails on its own (a path of the local model is
\* missing); NewLocalClient fails; the embedder is there
EmbedderStarts == { "not configured", "path missing", "local client failed", "working" }

\* the value of the variable embedder after the start: it stays the nil
\* interface when getEmbedder is not called or returns nil itself; when
\* NewLocalClient fails, getEmbedder returns its nil *LocalClient as an
\* llm.Embedder, an interface value that is not nil
EmbedderOf(start) ==
  CASE start = "working" -> "embedder"
    [] start = "local client failed" -> "nil *LocalClient"
    [] OTHER -> Nil

\* s.llm.Embed on the nil interface cannot be called, and Embed of
\* *LocalClient reads c.ModelFile
EmbedPanics(llm) == llm # "embedder"

\* mcp.NewToolResultError and mcp.NewToolResultText
ToolResultError(text) == [isError |-> TRUE, text |-> text, results |-> << >>]
ToolResultText(results) ==
  [isError |-> FALSE, text |-> "",
   results |-> [k \in 1..Len(results) |->
                  [filepath |-> results[k].Filepath, title |-> results[k].Title,
                   score |-> results[k].Score]]]

\* the run of cmdServer up to mcpSrv.Start
cmdServer(start) ==
  /\ ~ server.started
  /\ server' = [started |-> TRUE, llm |-> EmbedderOf(start), up |-> TRUE]
  /\ UNCHANGED <<db, now, ret, nops, hist>>

\* what a handler returns after s.llm.Embed and the search of the store
AfterEmbed(found) ==
  { ToolResultError("Embedding generation failed") }
    \cup { IF res.err # Nil THEN ToolResultError("search failed") ELSE ToolResultText(res.val) :
             res \in found }

\* a call of a tool ends with a result or with the panic of the handler; the
\* server is built without a recovery of panics, whether the process goes
\* on after one is left open
ToolCall(name, args, panics, results) ==
  /\ server.started /\ server.up
  /\ nops' = nops + 1
  /\ IF panics
     THEN /\ ret' = [ op |-> "CallTool", args |-> <<name>> \o args, val |-> Null,
                      err |-> "panic: nil pointer dereference" ]
          /\ \E up \in BOOLEAN : server' = [server EXCEPT !.up = up]
     ELSE /\ \E r \in results :
               ret' = [ op |-> "CallTool", args |-> <<name>> \o args, val |-> r, err |-> Nil ]
          /\ UNCHANGED server
  /\ UNCHANGED <<db, now, hist>>

\* the handler of vsearch
vsearchTool(limit) ==
  ToolCall("vsearch", <<limit>>, EmbedPanics(server.llm),
           UNION { AfterEmbed(SearchVecResults(db, v, limit)) : v \in StoreVectors })

\* the handler of query
queryTool(textQuery, limit) ==
  ToolCall("query", <<textQuery, limit>>, server.llm # Nil /\ EmbedPanics(server.llm),
           IF server.llm = Nil
           THEN { ToolResultError("Embeddings are not configured. Hybrid search unavailable.") }
           ELSE UNION { AfterEmbed(SearchHybridResults(db, textQuery, v, limit, "none")) :
                          v \in StoreVectors })

NextServer ==
  /\ \/ /\ nops < MaxServerOps
        /\ \/ \E t \in StoreTexts : IndexDocument(ColA, PathX, t, "none") /\ UNCHANGED server
           \/ EnsureVectorTable(2) /\ UNCHANGED server
           \/ \E t \in StoreTexts : SaveEmbedding(HashContent(t), 0, <<1, 0>>, "none") /\ UNCHANGED server
           \/ \E n \in HybridLimits : vsearchTool(n)
           \/ \E n \in HybridLimits : queryTool(<<"initial">>, n)
     \/ \E start \in EmbedderStarts : cmdServer(start)
  /\ UNCHANGED <<rrf, fs, txn, client, ui>>

SpecServer == Init /\ [][NextServer]_vars

----------------------------------------------------------------------------
(* Notions the properties are stated in *)

\* the documents rows of an identity
RowsOf(i) == { r \in db.documents : r.collection = i[1] /\ r.path = i[2] }

\* the lexical entries of a documents row
FtsOf(r) == { f \in db.documents_fts : f.rowid = r.id }

\* the index terms of a text
TermsOfText(t) ==
  { Tokenize(SpacedLines(t))[k] : k \in 1..Len(Tokenize(SpacedLines(t))) }

\* the index terms of collection || '/' || path
TermsOfPath(i) ==
  { Tokenize(i[1] \o <<"/">> \o i[2])[k] :
      k \in 1..Len(Tokenize(i[1] \o <<"/">> \o i[2])) }

\* the DocIDs of a list of search results
DocIDs(res) == { res[k].DocID : k \in 1..Len(res) }

\* the identity was indexed, and indexed again with another text
Updated(i) ==
  /\ hist[i][1] # Null
  /\ hist[i][2] # Null
  /\ hist[i][1] # hist[i][2]

----------------------------------------------------------------------------
(* Properties of IndexDocument, GetDocument and SearchFTS (SpecDocs) *)

\* C1: every identity that was indexed at least once has exactly one
\* documents row, that row is active, and it has exactly one entry in
\* documents_fts
C1_OneRowOneEntry ==
  \A i \in Identities :
    hist[i][1] # Null =>
      /\ Cardinality(RowsOf(i)) = 1
      /\ \A r \in RowsOf(i) : r.active = 1 /\ Cardinality(FtsOf(r)) = 1

\* an identity was indexed twice with the same text, and another identity
\* was indexed as well
C1_Witness ==
  \E i, j \in Identities :
    /\ i # j
    /\ hist[i][1] # Null
    /\ hist[i][1] = hist[i][2]
    /\ hist[j][1] # Null
    /\ Cardinality(db.documents_fts) = 2

\* C2: after an identity was indexed with t1 and then with another text t2,
\* SearchFTS for a term of t1 that is neither in t2 nor in the file path
\* does not return the document, and SearchFTS for a term of t2 (with a
\* limit that does not cut the result) returns it
C2_UpdateSearch ==
  ret.op = "SearchFTS" =>
    \A i \in Identities :
      Updated(i) =>
        LET phrase == Tokenize(CleanQuery(ret.args[1]))
            limit == ret.args[2]
            ids == { r.id : r \in RowsOf(i) }
        IN Len(phrase) = 1 =>
             /\ ( /\ phrase[1] \in TermsOfText(hist[i][2])
                  /\ phrase[1] \notin TermsOfText(hist[i][1])
                  /\ phrase[1] \notin TermsOfPath(i) )
                => ids \cap DocIDs(ret.val) = {}
             /\ ( /\ phrase[1] \in TermsOfText(hist[i][1])
                  /\ limit >= Cardinality(db.documents_fts) )
                => ids \subseteq DocIDs(ret.val)

\* a search for a term of the old text only, after the update, that does
\* not return the document
C2_Witness ==
  /\ ret.op = "SearchFTS"
  /\ ret.args[1] = <<"initial">>
  /\ \E i \in Identities :
       /\ hist[i] = <<TextUpdated, TextInitial>>
       /\ RowsOf(i) # {}
       /\ { r.id : r \in RowsOf(i) } \cap DocIDs(ret.val) = {}

\* C3: the lexical entry of each document holds collection/path, the
\* document's title and the content text stored under the document's hash,
\* and there is no other entry
C3_FtsInSync ==
  /\ \A r \in db.documents :
       /\ \E c \in db.content : c.hash = r.hash
       /\ \A f \in FtsOf(r), c \in db.content :
            c.hash = r.hash =>
              /\ f.filepath = r.collection \o <<"/">> \o r.path
              /\ f.title = r.title
              /\ f.body = c.doc
  /\ \A f \in db.documents_fts : \E r \in db.documents : r.id = f.rowid

\* a document whose text and title were replaced by a second call
C3_Witness ==
  \E i \in Identities :
    /\ Updated(i)
    /\ \E r \in RowsOf(i) : \E f \in FtsOf(r) :
         /\ f.body = hist[i][1]
         /\ f.title # ExtractTitle(hist[i][2], i[2])

\* C4: the content table holds at most one row per text, and every indexed
\* identity references the hash of the one content row that holds its text,
\* so identities indexed with identical text share one content row
C4_Dedup ==
  /\ \A c1, c2 \in db.content : c1.doc = c2.doc => c1 = c2
  /\ \A i \in Identities :
       hist[i][1] # Null =>
         /\ Cardinality({ c \in db.content : c.doc = hist[i][1] }) = 1
         /\ \A r \in RowsOf(i), c \in db.content :
              c.doc = hist[i][1] => r.hash = c.hash

\* three identities indexed with identical text
C4_Witness ==
  /\ \A i \in Identities : hist[i][1] = TextInitial
  /\ Cardinality(db.documents) = 3
  /\ Cardinality(db.content) = 1

\* C5: a call of IndexDocument that returns an error leaves the content
\* table, the documents table and the lexical index as they were
C5_FailedIndexChangesNothing ==
  [][(ret'.op = "IndexDocument" /\ nops' # nops /\ ret'.err # Nil) => db' = db]_vars

\* the commit failed for a call that would have replaced a document's text
C5_Witness ==
  /\ ret.op = "IndexDocument"
  /\ ret.err = "commit"
  /\ \E i \in Identities :
       /\ ret.args[1] = i[1]
       /\ ret.args[2] = i[2]
       /\ hist[i][1] # Null
       /\ hist[i][1] # ret.args[3]

\* C6: GetDocument(c, p) returns the text of the most recent successful
\* IndexDocument(c, p, .), whatever was indexed under other identities
C6_GetReturnsLastIndexed ==
  ret.op = "GetDocument" =>
    LET i == <<ret.args[1], ret.args[2]>>
    IN hist[i][1] # Null => (ret.err = Nil /\ ret.val = hist[i][1])

\* GetDocument after another identity was indexed with another text
C6_Witness ==
  /\ ret.op = "GetDocument"
  /\ ret.err = Nil
  /\ \E j \in Identities :
       /\ j # <<ret.args[1], ret.args[2]>>
       /\ hist[j][1] # Null
       /\ hist[j][1] # ret.val

\* C7: GetDocument changes no table, and for an identity without an active
\* documents row it returns the not-found error and no text
C7_GetMissingNotFound ==
  [][(ret'.op = "GetDocument" /\ nops' # nops) =>
       /\ db' = db
       /\ (~ \E r \in db.documents : /\ r.collection = ret'.args[1]
                                     /\ r.path = ret'.args[2]
                                     /\ r.active = 1)
          => (ret'.err = "document not found" /\ ret'.val = Null)]_vars

\* GetDocument found nothing for an identity while other documents exist
C7_Witness ==
  /\ ret.op = "GetDocument"
  /\ ret.err = "document not found"
  /\ db.documents # {}

----------------------------------------------------------------------------
(* Properties of the embedding tables (SpecVec) *)

\* the hashes of the active documents that have no content_vectors row
PendingExpected ==
  { r.hash : r \in { r \in db.documents :
                       /\ r.active = 1
                       /\ ~ \E cv \in db.content_vectors : cv.hash = r.hash } }

\* C8: GetPendingEmbeddings returns exactly one entry for each content hash
\* that an active document references and that has no content_vectors row;
\* N documents with distinct content of which M have an embedding give
\* N - M entries
C8_PendingExact ==
  \A m \in PendingMaps(db) :
    /\ DOMAIN m = PendingExpected
    /\ (\A r1, r2 \in db.documents : r1.hash = r2.hash => r1 = r2) =>
         Cardinality(DOMAIN m) =
           Cardinality(db.documents)
           - Cardinality({ r \in db.documents :
                             \E cv \in db.content_vectors : cv.hash = r.hash })

\* two documents with distinct content, one of them embedded
C8_Witness ==
  /\ Cardinality(db.documents) = 2
  /\ Cardinality({ r.hash : r \in db.documents }) = 2
  /\ Cardinality({ r \in db.documents :
                     \E cv \in db.content_vectors : cv.hash = r.hash }) = 1
  /\ \A m \in PendingMaps(db) : Cardinality(DOMAIN m) = 1

\* C9: every content_vectors row (hash, seq) has an embedding row in
\* vectors_vec under the key hash_seq
C9_MarkerHasEmbedding ==
  \A cv \in db.content_vectors :
    \E v \in db.vectors_vec : v.hash_seq = <<cv.hash, "_", cv.seq>>

\* a call of SaveEmbedding failed after markers had been written
C9_Witness ==
  /\ ret.op = "SaveEmbedding"
  /\ ret.err = "vectors_vec"
  /\ \E cv \in db.content_vectors : cv.seq = 1

\* C10: SaveEmbedding with a vector whose width differs from the declared
\* width of vectors_vec returns an error and changes neither
\* content_vectors nor vectors_vec
C10_WidthMismatchRejected ==
  [][(/\ ret'.op = "SaveEmbedding"
      /\ nops' # nops
      /\ db.vec_dim # 0
      /\ Len(ret'.args[3]) # db.vec_dim)
     => /\ ret'.err # Nil
        /\ db'.content_vectors = db.content_vectors
        /\ db'.vectors_vec = db.vectors_vec]_vars

\* a vector of the wrong width was refused for a new (hash, seq)
C10_Witness ==
  /\ ret.op = "SaveEmbedding"
  /\ ret.err = "dimension mismatch"
  /\ db.content_vectors # {}
  /\ [hash |-> ret.args[1], seq |-> ret.args[2]] \notin db.content_vectors


C12_PartlyWrittenStaysPending ==
  (ret.op = "SaveEmbedding" /\ ret.err # Nil) =>
    ( ( /\ \E r \in db.documents : r.hash = ret.args[1]
        /\ \E cv \in db.content_vectors : cv.hash = ret.args[1]
        /\ [hash |-> ret.args[1], seq |-> ret.args[2]] \notin db.content_vectors )
      => \A m \in PendingMaps(db) : ret.args[1] \in DOMAIN m )


----------------------------------------------------------------------------
(* Properties of ReciprocalRankFusion (SpecRrf) *)

\* the places (list, rank) of the input at which a filepath occurs
PlacesOf(lists, fp) ==
  { p \in (1..Len(lists)) \X (0..(MaxRrfLen + 1)) :
      /\ p[2] + 1 <= Len(lists[p[1]])
      /\ lists[p[1]][p[2] + 1].Filepath = fp }

RECURSIVE SumOfPlaces(_)
\* the sum of 1 / (60 + rank + 1) over a set of places, in units of
\* 1 / RrfScale
SumOfPlaces(places) ==
  IF places = {} THEN 0
  ELSE LET p == CHOOSE q \in places : TRUE
       IN RrfScale \div (60 + p[2] + 1) + SumOfPlaces(places \ {p})

\* the filepaths of the input
FilepathsOf(lists) ==
  { lists[l][k].Filepath : <<l, k>> \in
      { q \in (1..Len(lists)) \X (1..(MaxRrfLen + 2)) : q[2] <= Len(lists[q[1]]) } }

\* the filepaths of a list of results, in order
PathsOf(list) == [k \in 1..Len(list) |-> list[k].Filepath]

\* C13: the score of each fused result is the sum of 1 / (60 + rank + 1)
\* over all places of its filepath in the input, whatever the scores of the
\* input results; for A = [X, Y] and B = [Y, X] both score 1/61 + 1/62
C13_RrfScore ==
  rrf.calls >= 1 =>
    /\ \A k \in 1..Len(rrf.out) :
         rrf.out[k].Score = SumOfPlaces(PlacesOf(rrf.lists, rrf.out[k].Filepath))
    /\ ( /\ Len(rrf.lists) = 2
         /\ PathsOf(rrf.lists[1]) = <<"X", "Y">>
         /\ PathsOf(rrf.lists[2]) = <<"Y", "X">> )
       => \A k \in 1..Len(rrf.out) :
            rrf.out[k].Score = RrfScale \div 61 + RrfScale \div 62

\* the fusion of A = [X, Y] and B = [Y, X], the input scores differing
C13_Witness ==
  /\ rrf.calls >= 1
  /\ Len(rrf.lists) = 2
  /\ PathsOf(rrf.lists[1]) = <<"X", "Y">>
  /\ PathsOf(rrf.lists[2]) = <<"Y", "X">>
  /\ rrf.lists[1][1].Score # rrf.lists[2][2].Score
  /\ Len(rrf.out) = 2
  /\ rrf.out[1].Score = rrf.out[2].Score

\* C14: the fused list is sorted by non-increasing score and holds each
\* filepath of the input exactly once and no other; empty lists fuse to
\* the empty list
C14_SortedAndComplete ==
  rrf.calls >= 1 =>
    /\ \A i, j \in 1..Len(rrf.out) : i < j => rrf.out[i].Score >= rrf.out[j].Score
    /\ \A i, j \in 1..Len(rrf.out) :
         i # j => rrf.out[i].Filepath # rrf.out[j].Filepath
    /\ { rrf.out[k].Filepath : k \in 1..Len(rrf.out) } = FilepathsOf(rrf.lists)
    /\ (\A l \in 1..Len(rrf.lists) : rrf.lists[l] = << >>) => rrf.out = << >>

\* three filepaths of three different scores, one of them met twice
C14_Witness ==
  /\ rrf.calls >= 1
  /\ Len(rrf.out) = 3
  /\ rrf.out[1].Score > rrf.out[2].Score
  /\ rrf.out[2].Score > rrf.out[3].Score
  /\ Cardinality(PlacesOf(rrf.lists, rrf.out[1].Filepath)) = 2

\* C15: two calls of ReciprocalRankFusion with the same input lists return
\* the same list in the same order
C15_Deterministic ==
  rrf.calls >= 2 => rrf.out = rrf.prev

\* the results for a filepath in the order the loops meet them
OccurrencesOf(lists, fp) ==
  SelectSeq(Occurrences(lists), LAMBDA o : o.result.Filepath = fp)

\* the first of some results that has matches, << >> if none has
FirstWithMatches(occs) ==
  SelectSeq(occs, LAMBDA o : o.result.Matches # << >>)

\* C16: the fused result of a filepath has the Matches and the Snippet of
\* the first result for the filepath that has matches, and the empty
\* Matches and the Snippet of the first result if none has matches
C16_MatchesOfFirstWithMatches ==
  rrf.calls >= 1 =>
    \A k \in 1..Len(rrf.out) :
      LET occs == OccurrencesOf(rrf.lists, rrf.out[k].Filepath)
          with == FirstWithMatches(occs)
      IN IF with # << >>
         THEN /\ rrf.out[k].Matches = with[1].result.Matches
              /\ rrf.out[k].Snippet = with[1].result.Snippet
         ELSE /\ rrf.out[k].Matches = << >>
              /\ rrf.out[k].Snippet = occs[1].result.Snippet

\* a filepath met three times: without matches, then with matches, then
\* with other matches
C16_Witness ==
  /\ rrf.calls >= 1
  /\ \E k \in 1..Len(rrf.out) :
       LET occs == OccurrencesOf(rrf.lists, rrf.out[k].Filepath)
       IN /\ Len(occs) = 3
          /\ occs[1].result.Matches = << >>
          /\ occs[2].result.Matches # << >>
          /\ occs[3].result.Matches # << >>
          /\ occs[3].result.Matches # occs[2].result.Matches
          /\ rrf.out[k].Matches = occs[2].result.Matches


----------------------------------------------------------------------------
(* Properties of SearchHybrid (SpecHybrid) *)

\* C17: a SearchHybrid(q, v, limit) that returns no error returns the
\* first limit entries of a fusion of a result of SearchFTS(q, 2 * limit,
\* 1, false) and a result of SearchVec(v, 2 * limit), and never more than
\* limit entries
C17_HybridIsCutFusion ==
  (ret.op = "SearchHybrid" /\ ret.err = Nil) =>
    LET q == ret.args[1]
        v == ret.args[2]
        limit == ret.args[3]
    IN /\ Len(ret.val) <= limit
       /\ \E f \in SearchFTSResults(db, q, 2 * limit, 1, FALSE),
             s \in SearchVecResults(db, v, 2 * limit) :
            /\ s.err = Nil
            /\ \E o \in ReciprocalRankFusion(<<f, s.val>>) :
                  ret.val = SubSeq(o, 1, IF Len(o) < limit THEN Len(o) ELSE limit)

\* a search with limit 1 over two lexical hits and a vector hit: the one
\* result was first in one list and second in the other, and the fused
\* list was cut
C17_Witness ==
  /\ ret.op = "SearchHybrid"
  /\ ret.err = Nil
  /\ ret.args[3] = 1
  /\ Cardinality(FtsHits(db, ret.args[1])) = 2
  /\ Len(ret.val) = 1
  /\ ret.val[1].Score = RrfScale \div 61 + RrfScale \div 62

\* C18: a SearchHybrid in which the lexical or the vector search fails
\* returns an error and no results, also when the other search has hits
C18_HybridFailsWhole ==
  ( /\ ret.op = "SearchHybrid"
    /\ \/ ret.fault \in {"fts", "vec"}
       \/ VecQueryError(db, SerializeFloat32(ret.args[2])) # Nil )
  => (ret.err # Nil /\ ret.val = Null)

\* the vector search failed, there is no vector table, in a search whose
\* query has lexical hits
C18_Witness ==
  /\ ret.op = "SearchHybrid"
  /\ ret.fault = "none"
  /\ ret.err = "vector search failed: no such table: vectors_vec"
  /\ ret.val = Null
  /\ FtsHits(db, ret.args[1]) # {}


----------------------------------------------------------------------------
(* Properties of reindex (SpecReindex) *)

\* C19: after a reindex of the collection, a document whose file the walk
\* did not find is inactive (active = 0), and a document whose file the
\* walk found and indexed is active (active = 1)
C19_MissingFileInactive ==
  [][ (ret'.op = "reindex" /\ nops' # nops) =>
        \A r \in db'.documents :
          r.collection = ColA =>
            /\ fs[r.path] = Null => r.active = 0
            /\ (fs[r.path] # Null /\ r.path \notin ret'.failed) => r.active = 1 ]_vars

\* C20: a reindex in which IndexDocument fails for some files indexes
\* every other markdown file under the root: each has its document, with
\* the hash of the file's text, and its lexical entry
C20_BatchGoesOn ==
  [][ (ret'.op = "reindex" /\ nops' # nops) =>
        \A p \in {PathBX, PathX} :
          (fs[p] # Null /\ p \notin ret'.failed) =>
            \E r \in db'.documents :
              /\ r.collection = ColA
              /\ r.path = p
              /\ r.hash = HashContent(fs[p])
              /\ \E f \in db'.documents_fts : f.rowid = r.id /\ f.body = fs[p] ]_vars

\* the first file of the walk failed and was never indexed, the second
\* one is indexed
C20_Witness ==
  /\ ret.op = "reindex"
  /\ ret.failed = {PathBX}
  /\ fs[PathX] # Null
  /\ \E r \in db.documents : r.path = PathX /\ r.hash = HashContent(fs[PathX])
  /\ ~ \E r \in db.documents : r.path = PathBX


----------------------------------------------------------------------------
(* Properties of generateEmbeddings (SpecEmbed) *)

\* C21: a run of generateEmbeddings does not end the process, and it comes
\* to every chunk of every pending content the splitter did not fail for,
\* whatever chunks the embedder or SaveEmbedding failed for
C21_EmbedBatchGoesOn ==
  ret.op = "generateEmbeddings" =>
    /\ ret.err = Nil
    /\ \A h \in DOMAIN ret.pending :
         h \notin ret.splitFails =>
           \A i \in 0..(Len(Chunks(ret.pending[h].Body)) - 1) :
             \E k \in 1..Len(ret.val) : ret.val[k].chunk = [hash |-> h, seq |-> i]


----------------------------------------------------------------------------
(* Properties over all operations of the store (SpecStore) *)

\* C22: no step changes or deletes a content row: each row of the content
\* table is there after the step, and it is the only row of its hash
C22_ContentImmutable ==
  [][ \A c \in db.content :
        /\ c \in db'.content
        /\ \A c2 \in db'.content : c2.hash = c.hash => c2 = c ]_vars

\* a text was indexed again, under another identity or the same, after
\* the clock had moved on: its content row still has the first time
C22_Witness ==
  /\ ret.op = "IndexDocument"
  /\ ret.err = Nil
  /\ \E c \in db.content :
       /\ c.hash = HashContent(ret.args[3])
       /\ c.created_at < now
       /\ \E r \in db.documents : r.hash = c.hash /\ r.modified_at = now


----------------------------------------------------------------------------
(* Properties of reads that run during a write transaction (SpecTx) *)

\* the tables hold no document without its lexical entry, no lexical
\* entry whose body is not the text of the document's hash, and no
\* content_vectors marker without its embedding
Whole(d) ==
  /\ \A r \in d.documents :
       \E f \in d.documents_fts :
         f.rowid = r.id /\ f.title = r.title /\ f.body = DocOf(d, r.hash)
  /\ \A cv \in d.content_vectors :
       \E v \in d.vectors_vec : v.hash_seq = HashSeq(cv.hash, cv.seq)

----------------------------------------------------------------------------
(* Properties of the matches and the snippet of a row (SpecScan) *)

\* the bytes of the body and of the query of the row scanned
ScanBody == Bytes(SpacedLines(ret.args[1]))
ScanQuery == Bytes(TrimSpace(ret.args[2]))

\* the byte offsets at which the body holds the query, whatever the case
OccurrencesIn(body, query) ==
  { p \in 0..(Len(body) - Len(query)) :
      ToLower(SubSeq(body, p + 1, p + Len(query))) = ToLower(query) }

\* the k-th smallest of a set of numbers
Kth(S, k) == CHOOSE p \in S : Cardinality({ q \in S : q < p }) = k - 1

\* the line of a byte offset, from 0: the line breaks before it
LineOf(body, p) == Cardinality({ i \in 1..p : body[i] = "\n" })

RECURSIVE JoinNewline(_)
JoinNewline(rows) ==
  IF rows = << >> THEN << >>
  ELSE IF Len(rows) = 1 THEN rows[1]
  ELSE rows[1] \o <<"\n">> \o JoinNewline(Tail(rows))

\* lines max(L-n, 0) to min(L+n, last), line L after "-> " and the others
\* after three spaces
Rendered(lines, L, n) ==
  LET lo == IF L - n > 0 THEN L - n ELSE 0
      hi == IF L + n < Len(lines) - 1 THEN L + n ELSE Len(lines) - 1
  IN JoinNewline([i \in 1..(hi - lo + 1) |->
                    (IF lo + i - 1 = L THEN <<"-", ">", " ">> ELSE <<" ", " ", " ">>)
                      \o lines[lo + i]])

\* C24: the k-th rendered match of a row is the lines around the line of
\* the k-th occurrence of the query in the body, that line flagged
C24_MatchIsLinesAround ==
  ret.op = "ScanRow" =>
    LET occ == OccurrencesIn(ScanBody, ScanQuery)
    IN \A k \in 1..Len(ret.val.Matches) :
         k <= Cardinality(occ) =>
           ret.val.Matches[k] = Rendered(Split(ScanBody), LineOf(ScanBody, Kth(occ, k)), ret.args[3])

\* the same on the bodies of ASCII letters only
C24_OnAscii ==
  ret.args[1] # BodyKelvin => C24_MatchIsLinesAround

\* the body "a\nb\nMATCH here\nc\nd", the query "MATCH" and one line of context
C24_Example ==
  (ret.op = "ScanRow" /\ ret.args = <<BodyExample, <<"MATCH">>, 1, FALSE>>) =>
    ret.val.Matches = << Bytes(<<"   ", "b", "\n", "-> ", "MATCH", " ", "here", "\n", "   ", "c">>) >>


\* the byte offsets at which the query occurs, as the search sees them: in
\* the lower case of the body
OccurrencesSought(body, query) ==
  { p \in 0..(Len(ToLower(body)) - Len(ToLower(query))) :
      SubSeq(ToLower(body), p + 1, p + Len(ToLower(query))) = ToLower(query) }

C25_WitnessFirstOnly ==
  /\ ret.op = "ScanRow"
  /\ ret.args[1] = BodyThrice
  /\ ~ ret.args[4]
  /\ Cardinality(OccurrencesSought(ScanBody, ScanQuery)) = 3
  /\ Len(ret.val.Matches) = 1


\* C26: the snippet of a row is its first rendered match; a row without
\* match has the whole body as snippet when the body is at most 200 bytes,
\* and its first 200 bytes followed by "..." otherwise
C26_SnippetFirstMatchOrHead ==
  ret.op = "ScanRow" =>
    IF ret.val.Matches # << >>
    THEN ret.val.Snippet = ret.val.Matches[1]
    ELSE /\ OccurrencesSought(ScanBody, ScanQuery) = {}
         /\ ret.val.Snippet = IF Len(ScanBody) <= SnippetBytes THEN ScanBody
                              ELSE [i \in 1..(SnippetBytes + 3) |->
                                      IF i <= SnippetBytes THEN ScanBody[i] ELSE "."]

\* a longer body without occurrence of the query: a snippet of three bytes
\* more than the limit
C26_Witness ==
  /\ ret.op = "ScanRow"
  /\ ret.val.Matches = << >>
  /\ Len(ScanBody) > SnippetBytes
  /\ Len(ret.val.Snippet) = SnippetBytes + 3
  /\ ret.val.Snippet[SnippetBytes] = ScanBody[SnippetBytes]

\* a body of exactly the limit without occurrence: the whole body
C26_WitnessAtLimit ==
  /\ ret.op = "ScanRow"
  /\ ret.val.Matches = << >>
  /\ Len(ScanBody) = SnippetBytes
  /\ ret.val.Snippet = ScanBody


----------------------------------------------------------------------------
(* Properties of the query of SearchFTS (SpecDocs) *)

\* C27: SearchFTS returns no error whatever the double quotes of its
\* query, and its results are those of the one phrase made of the words of
\* the query without its double quotes: rows that hold the phrase, and
\* every such row when the limit does not cut the result
C27_QuotesRemoved ==
  ret.op = "SearchFTS" =>
    LET phrase == Tokenize(SelectSeq(ret.args[1], IsNotQuote))
        holders == { f.rowid : f \in { g \in db.documents_fts : FtsMatch(g, phrase) } }
    IN /\ ret.err = Nil
       /\ DocIDs(ret.val) \subseteq holders
       /\ ret.args[2] >= Cardinality(db.documents_fts) => DocIDs(ret.val) = holders

\* a query with one double quote, unbalanced, found a document
C27_Witness ==
  /\ ret.op = "SearchFTS"
  /\ Cardinality({ k \in 1..Len(ret.args[1]) : ret.args[1][k] = "\"" }) = 1
  /\ ret.err = Nil
  /\ ret.val # << >>

\* a query between double quotes found a document
C27_WitnessBalanced ==
  /\ ret.op = "SearchFTS"
  /\ Cardinality({ k \in 1..Len(ret.args[1]) : ret.args[1][k] = "\"" }) = 2
  /\ ret.err = Nil
  /\ ret.val # << >>


----------------------------------------------------------------------------
(* Properties of a repeated SaveEmbedding and of GetStats (SpecStore) *)

C29_StatsCount ==
  ret.op = "GetStats" =>
    LET active == { r \in db.documents : r.active = 1 }
    IN /\ ret.err = Nil
       /\ ret.val.TotalDocuments = Cardinality(active)
       /\ \E names \in SUBSET { r.collection : r \in db.documents } :
            /\ \A r \in active : r.collection \in names
            /\ \A c \in names : \E r \in active : r.collection = c
            /\ ret.val.Collections = Cardinality(names)
       /\ ret.val.Embeddings = Cardinality(db.vectors_vec)
       /\ db.vec_dim = 0 => ret.val.Embeddings = 0

\* two documents of one collection and no vector table
C29_Witness ==
  /\ ret.op = "GetStats"
  /\ ret.err = Nil
  /\ ret.val.TotalDocuments = 2
  /\ ret.val.Collections = 1
  /\ db.vec_dim = 0
  /\ ret.val.Embeddings = 0

\* an embedding row counted
C29_WitnessEmbedding ==
  /\ ret.op = "GetStats"
  /\ ret.val.Embeddings = 1


----------------------------------------------------------------------------
(* Properties of the title of a document (SpecTitle) *)

\* the lines that are a mark, a space and a text
HeadingLines(lines, mark) ==
  { i \in 1..Len(lines) : Len(lines[i]) >= 2 /\ lines[i][1] = mark }

\* the file name of a path without its extension
NameWithoutExtension(path) ==
  LET slashes == { i \in 1..Len(path) : path[i] = "/" }
      name == SubSeq(path, IF slashes = {} THEN 1
                           ELSE 1 + CHOOSE i \in slashes : \A j \in slashes : j <= i,
                     Len(path))
      dots == { i \in 1..Len(name) : name[i] = "." }
  IN IF dots = {} THEN name
     ELSE SubSeq(name, 1, (CHOOSE i \in dots : \A j \in dots : j <= i) - 1)

\* the title the text and the path of a document call for
TitleOf(lines, path) ==
  LET h1 == HeadingLines(lines, "#")
      h2 == HeadingLines(lines, "##")
      First(S) == CHOOSE i \in S : \A j \in S : i <= j
  IN IF h1 # {} THEN Spaced(Tail(lines[First(h1)]))
     ELSE IF h2 # {} THEN Spaced(Tail(lines[First(h2)]))
     ELSE NameWithoutExtension(path)

\* C30: the title IndexDocument stores is the text of the first "# "
\* heading of the text, without one the text of its first "## " heading,
\* and without either the name of the file without its extension
C30_TitleFromHeadingOrName ==
  (ret.op = "IndexDocument" /\ ret.err = Nil) =>
    \A r \in db.documents :
      (r.collection = ret.args[1] /\ r.path = ret.args[2])
        => r.title = TitleOf(ret.args[3], ret.args[2])

\* the same for the texts without a mark alone on its line
C30_WithoutBareMark ==
  ( /\ ret.op = "IndexDocument"
    /\ \A i \in 1..Len(ret.args[3]) : ret.args[3][i] \notin { <<"#">>, <<"##">> } )
    => C30_TitleFromHeadingOrName


----------------------------------------------------------------------------
(* Properties of SearchVec (SpecSearch) *)

\* the embeddings of a hash
EmbeddingsOf(d, hash) ==
  { v \in d.vectors_vec : \E s \in Seqs : v.hash_seq = HashSeq(hash, s) }

\* C31: every result of SearchVec is a document together with an embedding
\* of the document's current hash, whose distance gives the score: a
\* document whose current text has no embedding is not returned
C31_VecByCurrentHash ==
  (ret.op = "SearchVec" /\ ret.err = Nil) =>
    \A k \in 1..Len(ret.val) :
      \E r \in db.documents :
        /\ ret.val[k].Filepath = r.collection \o <<"/">> \o r.path
        /\ ret.val[k].Title = r.title
        /\ \E v \in EmbeddingsOf(db, r.hash) :
             ret.val[k].Score = 1000 - CosineDistance(v.embedding.floats, ret.args[1])

\* a document was indexed again with another text, its old text has an
\* embedding and its new text has none: SearchVec does not return it
C31_Witness ==
  /\ ret.op = "SearchVec"
  /\ ret.err = Nil
  /\ \E i \in SearchIdentities :
       /\ Updated(i)
       /\ hist[i][1] # hist[i][2]
       /\ EmbeddingsOf(db, HashContent(hist[i][2])) # {}
       /\ EmbeddingsOf(db, HashContent(hist[i][1])) = {}
       /\ \A k \in 1..Len(ret.val) : ret.val[k].Filepath # i[1] \o <<"/">> \o i[2]


\* C32: SearchVec returns at most limit results and no document twice, and
\* a result of SearchHybrid has a fused score of at most one first rank of
\* the lexical list and one first rank of the vector list
C32_VecOncePerDocument ==
  /\ (ret.op = "SearchVec" /\ ret.err = Nil) =>
       /\ Len(ret.val) <= ret.args[2]
       /\ \A j, k \in 1..Len(ret.val) :
            j # k => ret.val[j].Filepath # ret.val[k].Filepath
  /\ (ret.op = "SearchHybrid" /\ ret.err = Nil) =>
       \A k \in 1..Len(ret.val) : ret.val[k].Score <= 2 * RrfScore(0)

\* the first part alone: at most limit results
C32_MoreThanLimit ==
  (ret.op = "SearchVec" /\ ret.err = Nil) => Len(ret.val) <= ret.args[2]

\* the second part alone: no document twice
C32_DocumentOnce ==
  (ret.op = "SearchVec" /\ ret.err = Nil) =>
    \A j, k \in 1..Len(ret.val) : j # k => ret.val[j].Filepath # ret.val[k].Filepath

\* the third part alone: a fused score of at most two first ranks
C32_FusedScore ==
  (ret.op = "SearchHybrid" /\ ret.err = Nil) =>
    \A k \in 1..Len(ret.val) : ret.val[k].Score <= 2 * RrfScore(0)


----------------------------------------------------------------------------
(* Properties of a run of generateEmbeddings without failure (SpecEmbed) *)

\* the run returned, and neither the splitter nor Embed failed in it
\* (SaveEmbedding did not either, the run returned)
CleanRun ==
  /\ ret.op = "generateEmbeddings"
  /\ ret.err = Nil
  /\ ret.splitFails = {}
  /\ \A k \in 1..Len(ret.val) : ret.val[k].did = "saved"

\* C33: after a run of generateEmbeddings without failure no content is
\* pending: every document's content has a content_vectors row
C33_NothingPendingAfterRun ==
  CleanRun =>
    /\ \A h \in DOMAIN ret.pending : \E cv \in db.content_vectors : cv.hash = h
    /\ \A r \in db.documents : \E cv \in db.content_vectors : cv.hash = r.hash

\* the same when every content pending at the start of the run has a chunk
C33_WithChunks ==
  (CleanRun /\ \A h \in DOMAIN ret.pending : Chunks(ret.pending[h].Body) # << >>)
    => /\ \A r \in db.documents : \E cv \in db.content_vectors : cv.hash = r.hash
       /\ PendingMaps(db) = { << >> }


----------------------------------------------------------------------------
(* Properties of the chat *)

\* a call of Chat is running
InCall == client.pc # "idle"

\* a call of Chat has returned and no other has started since
Returned == client.pc = "idle" /\ client.chats > 0

LastMessage == client.Messages[Len(client.Messages)]

\* the requests and the return of a call: at most MaxTurns requests; every
\* response before the last one carries tool calls; the call returns a text
\* without error exactly when its last response carries no tool calls, and
\* then the text is that of the assistant message it appended; it returns
\* the error of the turn limit exactly when it got MaxTurns responses that
\* all carry tool calls
ChatBounded ==
  /\ client.requests <= MaxTurns
  /\ Len(client.responses) <= client.requests
  /\ \A k \in 1..(Len(client.responses) - 1) : client.responses[k] # << >>
  /\ Returned =>
       LET n == Len(client.responses)
           final == n > 0 /\ client.responses[n] = << >>
       IN /\ (client.out.err = Nil) <=> final
          /\ final => /\ LastMessage.Role = "assistant"
                      /\ LastMessage.Content = client.out.val
                      /\ client.out.val # << >>
          /\ (client.out.err = "max conversation turns exceeded")
               <=> (n = MaxTurns /\ client.responses[n] # << >>)
          /\ client.out.err \in {Nil, "max conversation turns exceeded"} \cup RequestErrors

C34_WitnessText ==
  /\ Returned
  /\ client.requests = 3
  /\ client.out.err = Nil
  /\ client.out.val = <<"answer">>


\* the assistant messages of a history that carry tool calls
WithToolCalls(msgs) ==
  { k \in 1..Len(msgs) : msgs[k].Role = "assistant" /\ msgs[k].ToolCalls # << >> }

\* the first `done` tool calls of the message at k are answered: the messages
\* after it are tool messages with the IDs of these calls, one per call and
\* in the order of the calls, and no other tool message follows them
Answered(msgs, k, done) ==
  /\ Len(msgs) >= k + done
  /\ \A j \in 1..done : /\ msgs[k + j].Role = "tool"
                       /\ msgs[k + j].ToolCallID = msgs[k].ToolCalls[j].ID
  /\ Len(msgs) > k + done => msgs[k + done + 1].Role # "tool"

\* every tool message of a history stands among the answers of an assistant
\* message with tool calls
ToolMessagesBelong(msgs) ==
  \A m \in 1..Len(msgs) :
    msgs[m].Role = "tool"
      => \E k \in WithToolCalls(msgs) : k < m /\ m <= k + Len(msgs[k].ToolCalls)

\* C35: within Chat, for every tool call of an assistant response exactly one
\* tool message with the ID of the call is appended, in the order of the
\* calls and before the next request is sent, also for a call whose
\* arguments cannot be parsed and for a tool that returns an error
C35_OneToolMessagePerCall ==
  /\ \A k \in WithToolCalls(client.Messages) :
       Answered(client.Messages, k,
                IF client.pc = "tools" /\ \A m \in WithToolCalls(client.Messages) : m <= k
                THEN Len(client.Messages[k].ToolCalls) - Len(client.calls)
                ELSE Len(client.Messages[k].ToolCalls))
  /\ ToolMessagesBelong(client.Messages)
  /\ \A k \in WithToolCalls(client.sent) :
       Answered(client.sent, k, Len(client.sent[k].ToolCalls))
  /\ ToolMessagesBelong(client.sent)

C35_Witness ==
  /\ client.requests >= 2
  /\ \E k \in 1..Len(client.sent) :
       /\ client.sent[k].Role = "tool"
       /\ client.sent[k].Content = <<"Error parsing arguments JSON">>
  /\ \E k \in 1..Len(client.sent) :
       /\ client.sent[k].Role = "tool"
       /\ client.sent[k].Content = <<"Error executing tool">>


\* a history in which a user message follows a user message
TwoUserMessages(msgs) ==
  \E k \in 1..(Len(msgs) - 1) : msgs[k].Role = "user" /\ msgs[k + 1].Role = "user"

\* the history of a returned call ends with an assistant message
EndsWithAssistant == Returned => LastMessage.Role = "assistant"

\* no request carries a history with two user messages in a row
NoTwoUserMessagesSent == ~ TwoUserMessages(client.sent)

\* the same for the calls that return a text or the error of the turn limit
EndsWithAssistantUnlessRequestFailed ==
  (Returned /\ client.out.err \notin RequestErrors) => LastMessage.Role = "assistant"

\* C36: when Chat returns, with a result or with an error, the last message
\* of the history has the role assistant, so that a later call of Chat never
\* sends a history with two user messages in a row
C36_HistoryEndsWithAssistant == EndsWithAssistant /\ NoTwoUserMessagesSent


\* the calls of Chat in flight: the commands of Enter that have not started
\* yet and the call that is running
InFlight == Len(ui.cmds) + (IF InCall THEN 1 ELSE 0)

\* at most one call is in flight, and isLoading is set exactly while a call
\* is in flight or its response is on its way to Update
OneInFlight ==
  /\ InFlight <= 1
  /\ ui.isLoading <=> (InFlight + Len(ui.mailbox) = 1)

\* while a response is pending no step, a press of Enter included, starts a
\* call or changes the input history, and the message list changes only by
\* the response
PendingKeepsLists ==
  ui.isLoading =>
    /\ ui'.history = ui.history
    /\ Len(ui'.cmds) <= Len(ui.cmds)
    /\ client'.chats + Len(ui'.cmds) = client.chats + Len(ui.cmds)
    /\ \/ ui'.messages = ui.messages
       \/ ui.mailbox # << >> /\ ui'.mailbox = Tail(ui.mailbox)

\* isLoading is cleared by the arrival of the response message only
ClearedByResponse ==
  (ui.isLoading /\ ~ ui'.isLoading)
    => /\ ui.mailbox # << >>
       /\ ui'.mailbox = Tail(ui.mailbox)
       /\ Len(ui'.messages) = Len(ui.messages) + 1

\* C37: the chat UI never has two calls of Chat in flight on the same
\* client: Enter while isLoading is set starts no request and leaves the
\* input history and the message list as they are, and isLoading is cleared
\* only by the arrival of the response message
C37_OneChatInFlight ==
  /\ []OneInFlight
  /\ [][PendingKeepsLists]_vars
  /\ [][ClearedByResponse]_vars

C37_Witness ==
  /\ ui.last = "enter while loading"
  /\ ui.isLoading
  /\ ui.input = <<"q">>
  /\ InCall


----------------------------------------------------------------------------
(* Properties of SearchFTS on a query with double quotes (SpecDocs) *)

\* two queries that differ by double quotes and by outer blanks only
SameButQuotes(q1, q2) ==
  /\ q1 # q2
  /\ CleanQuery(TrimSpace(q1)) = CleanQuery(TrimSpace(q2))

\* the documents of the results of SearchFTS are those of every query that
\* differs from its query by double quotes only
SameDocumentsWithQuotes ==
  (ret.op = "SearchFTS" /\ ret.err = Nil) =>
    \A q \in Queries :
      SameButQuotes(q, ret.args[1]) =>
        \E r \in SearchFTSResults(db, q, ret.args[2], ret.args[3], ret.args[4]) :
          /\ Len(r) = Len(ret.val)
          /\ \A k \in 1..Len(r) : r[k].DocID = ret.val[k].DocID

\* C38: SearchFTS returns the same results, the Matches and the Snippet of
\* every hit included, for a query and for the same query with double quotes
\* added around it or inside it
C38_SameResultsWithQuotes ==
  (ret.op = "SearchFTS" /\ ret.err = Nil) =>
    \A q \in Queries :
      SameButQuotes(q, ret.args[1]) =>
        ret.val \in SearchFTSResults(db, q, ret.args[2], ret.args[3], ret.args[4])


----------------------------------------------------------------------------
(* Properties of the MCP server without an embedder (SpecServer) *)

\* the server was started without an embedder
WithoutEmbedder == server.started /\ server.llm # "embedder"

\* the query tool of a server whose embedder is the nil interface returns a
\* tool error result
QueryErrorOnNilInterface ==
  (ret.op = "CallTool" /\ ret.args[1] = "query" /\ server.llm = Nil)
    => ret.err = Nil /\ ret.val.isError

\* C39: when the MCP server is started without an embedder (embeddings not
\* configured, or the embedder failed to initialise), a call of the vsearch
\* or query tool returns a tool error result; no handler dereferences the
\* missing embedder
C39_ToolErrorWithoutEmbedder ==
  (ret.op = "CallTool" /\ WithoutEmbedder)
    => ret.err = Nil /\ ret.val.isError

====
